---- MODULE Spec2Model ----
(***************************************************************************)
(* Verification model of the coffee-machine BLE controller: Part I the      *)
(* connection worker, Part II the CoffeeMachine controller with its        *)
(* codecs, Part III the HTTP server, Part IV the codecs as pure functions, *)
(* Part V the power state estimator.  Each part has its own specification  *)
(* (Spec, PowerSpec and ScheduleSpec, ServerSpec, CodecSpec,               *)
(* EstimatorSpec) and leaves the other parts' state alone.                 *)
(*                                                                         *)
(* Part I - BLEWorker (src/a53/bt/ble_worker.py) together with the         *)
(* asyncio tasks it spawns (src/a53/bt/characteristics.py).                *)
(*                                                                         *)
(* The worker thread runs one asyncio event loop.  Coroutines on that loop *)
(* are interleaved only at their await points, so every action below is    *)
(* the code between two consecutive awaits of one coroutine.  The caller   *)
(* threads (enqueue, stop) are OS threads and interleave with the worker   *)
(* at every statement; the test of `self.running` and the following        *)
(* `get_nowait()` are therefore two separate worker steps.                 *)
(*                                                                         *)
(* Every BleakClient(address) evaluation creates a new client object; the  *)
(* objects are numbered 1, 2, ... in creation order and connected[c] is    *)
(* that object's is_connected property.  A Link call (connect, disconnect, *)
(* read_gatt_char, write_gatt_char) is in flight from the step that awaits *)
(* it to the step that resumes the awaiting coroutine, and its outcome     *)
(* (return or raise) is chosen by the environment.                         *)
(***************************************************************************)
EXTENDS Integers, Sequences, FiniteSets, TLC

\* ------------------------------------------------------------------ bounds
MaxCmds == 3      \* commands the callers enqueue in one behaviour
MaxDeliver == 2   \* read cycles one list/poll task starts
NumChars == 1     \* readable characteristics the device exposes
MaxSetSlots == 1  \* schedule slots set on the appliance at the start
NumHandlers == 2  \* HTTP requests the server handles at the same time
MaxCalls == 2     \* worker commands enqueued before a session's last call
MaxEntries == 4   \* entries of one day in a schedule given to encode_schedule
MaxApply == 3     \* codec functions applied in a row to one value
MaxUpdates == 4   \* temperature readings given to one estimator
MaxOverrides == 1 \* set_power_state calls the callers make on one estimator

\* ------------------------------------------------------------------- state
VARIABLES
    running,      \* BLEWorker.running
    wpc,          \* position of main_loop (and of the worker thread)
    cur,          \* command main_loop is servicing (0: none)
    cmds,         \* every command enqueued so far, in enqueue order
    cmdQueue,     \* BLEWorker.cmd_queue: command ids, 0 is ('stop', None)
    results,      \* the per-command result queues q
    client,       \* BLEWorker._client (0: None)
    connected,    \* is_connected of every BleakClient created so far
    tasks,        \* the list_characteristics tasks, by command id
    pollingTask,  \* main_loop's local polling_task (0: None)
    spc,          \* position of the caller of stop()
    dequeued,     \* history: command ids in the order get_nowait returned them
    linkCalled,   \* history: commands for which main_loop invoked a Link call
    discInvoked,  \* history: clients on which disconnect() was invoked
    heldAtStop    \* history: the connected client held when stop() was called

\* the controller of Part II
VARIABLES
    isConnected,         \* CoffeeMachine._is_connected
    cpc,                 \* position of the operation the caller invoked
    operation,           \* the operation invoked ("none": not yet)
    step,                \* the choreography step whose result is awaited
    original_schedule,   \* local of _set_power_state
    current_local_time,  \* local of _set_power_state
    workQueue,           \* worker commands of the controller not yet serviced
    reply,               \* the message on the awaited result queue
    issued,              \* history: every worker command the controller enqueued
    device,              \* the appliance's characteristics
    deviceAtCall,        \* history: the appliance's characteristics when the operation was called
    workerThread,        \* the thread of the controller's BLEWorker: new, alive, ended
    requested,           \* the schedule_data of the set_schedule call ({} otherwise)
    completed            \* history: the operations that returned, with argument and value

\* the HTTP server of Part III
VARIABLES
    coffee_machine,   \* server.coffee_machine (0: None, else an instance)
    instances,        \* the CoffeeMachine objects created so far
    handler,          \* the request handlers: position and instance in use
    disconnected      \* history: instances on which disconnect() has completed

\* the codecs of Part IV, applied one after the other to a value
VARIABLES
    subject,   \* the value at hand and its form (bytes, schedule, datetime, text)
    applied    \* history: the codec functions applied, with argument and result

\* the power state estimator of Part V
VARIABLES
    temperatures,           \* PowerStateEstimator._temperatures
    timestamps,             \* PowerStateEstimator._timestamps, in seconds
    power_state,            \* PowerStateEstimator._power_state
    last_change_timestamp,  \* PowerStateEstimator._last_change_timestamp
    window_size,            \* maxlen of the two deques
    updates,                \* temperature_updated calls made so far
    overrides,              \* set_power_state calls the callers made so far
    lastCall,               \* history: the last call, its arguments, the state before it, its outcome
    samples                 \* history: every (time, temperature) given to temperature_updated

workerVars == <<running, wpc, cur, client, connected, pollingTask>>
queueVars  == <<cmds, cmdQueue, results>>
histVars   == <<dequeued, linkCalled, discInvoked, heldAtStop>>
bleVars == <<running, wpc, cur, cmds, cmdQueue, results, client, connected,
             tasks, pollingTask, spc, dequeued, linkCalled, discInvoked,
             heldAtStop>>
srvVars == <<coffee_machine, instances, handler, disconnected>>
ctrlVars == <<isConnected, cpc, operation, step, original_schedule,
              current_local_time, workQueue, reply, issued, device,
              deviceAtCall, workerThread, requested, completed>>
codecVars == <<subject, applied>>
estVars == <<temperatures, timestamps, power_state, last_change_timestamp,
             window_size, updates, overrides, lastCall, samples>>
vars == <<bleVars, ctrlVars, srvVars, codecVars, estVars>>
\* what the actions of one part leave alone
outsideWorker == <<ctrlVars, srvVars, codecVars, estVars>>
outsideController == <<bleVars, srvVars, codecVars, estVars>>
outsideServer == <<bleVars, ctrlVars, codecVars, estVars>>
outsideCodecs == <<bleVars, ctrlVars, srvVars, estVars>>
outsideEstimator == <<bleVars, ctrlVars, srvVars, codecVars>>

CmdIds == 1..MaxCmds

\* the command tuples put on cmd_queue by the enqueue methods
Kinds == {"connect", "disconnect", "read", "write", "list_characteristics"}
DirectKinds == {"connect", "disconnect", "read", "write"}

\* positions at which main_loop is suspended in `await <Link call>`
AwaitingLink == {"connect", "disconnect", "read", "write", "stop_disconnect",
                 "final_disconnect"}
\* positions at which the worker thread has terminated
Dead == {"exited", "crashed"}
\* positions at which the event loop can run another coroutine: main_loop is
\* suspended in an await and the loop has not been closed
LoopIdle == {"loop", "gather"} \cup AwaitingLink

NoTask == [pc |-> "none", client |-> 0, poll |-> FALSE, cancelled |-> FALSE,
           idx |-> 0, cycles |-> 0]

\* ----------------------------------------------------------------- helpers
\* faulty variant of IsConnected: tests the handle, not is_connected
IsConnected_HandleOnly(c) == c # 0

\* `self._client and self._client.is_connected`
IsConnected(c) == c # 0 /\ connected[c]

\* q.put(msg) on the result queue of command id
Put(res, id, msg) == [res EXCEPT ![id] = Append(@, msg)]

\* faulty variant of QueueGet: a LIFO queue
QueueGet_Newest(q) == [item |-> q[Len(q)], rest |-> SubSeq(q, 1, Len(q) - 1)]

\* cmd_queue.get_nowait(): the oldest item and the remaining queue
QueueGet(q) == [item |-> Head(q), rest |-> Tail(q)]

\* faulty variant of Cancel: the old polling task is left running
Cancel_Forgotten(ts, t) == ts

\* polling_task.cancel(): request cancellation; the task acknowledges it the
\* next time the event loop runs it
Cancel(ts, t) == [ts EXCEPT ![t].cancelled = TRUE]

\* `polling_task and not polling_task.done()`
PollActive == pollingTask # 0 /\ tasks[pollingTask].pc # "done"

\* number of Link calls in flight on the event loop
InFlight ==
    (IF wpc \in AwaitingLink THEN 1 ELSE 0)
    + (IF wpc \in Dead THEN 0
       ELSE Cardinality({t \in CmdIds : tasks[t].pc = "reading"}))

\* A coroutine that is ready to run: a task that was created and has not run
\* yet, or a task whose cancellation was requested and not yet delivered.
\* create_task and cancel schedule the task with call_soon, and the event
\* loop runs everything that is ready before it resumes a coroutine that is
\* waiting for a timer (asyncio.sleep) or for the completion of a Link call.
Ready(t) ==
    \/ tasks[t].pc = "new"
    \/ tasks[t].cancelled /\ tasks[t].pc \in {"reading", "sleeping"}

NoReady == \A t \in CmdIds : ~Ready(t)

\* -------------------------------------------------------------------- Init
WorkerInit ==
    /\ running = FALSE
    /\ wpc = "new"
    /\ cur = 0
    /\ cmds = <<>>
    /\ cmdQueue = <<>>
    /\ results = [i \in CmdIds |-> <<>>]
    /\ client = 0
    /\ connected = <<>>
    /\ tasks = [i \in CmdIds |-> NoTask]
    /\ pollingTask = 0
    /\ spc = "idle"
    /\ dequeued = <<>>
    /\ linkCalled = {}
    /\ discInvoked = {}
    /\ heldAtStop = 0

\* ----------------------------------------------------------- caller threads
\* BLEWorker.start()
Start ==
    /\ wpc = "new"
    /\ running' = TRUE
    /\ wpc' = "loop"
    /\ UNCHANGED <<cur, cmds, cmdQueue, results, client, connected, tasks,
                   pollingTask, spc, histVars>>
    /\ UNCHANGED outsideWorker

\* connect_device / disconnect_device / read_characteristic /
\* write_characteristic / list_characteristics, called on a started worker
Enqueue(kind, interval) ==
    /\ running
    /\ Len(cmds) < MaxCmds
    /\ kind = "list_characteristics" \/ interval = 0
    /\ cmds' = Append(cmds, [kind |-> kind, interval |-> interval])
    /\ cmdQueue' = Append(cmdQueue, Len(cmds) + 1)
    /\ UNCHANGED <<workerVars, results, tasks, spc, histVars>>
    /\ UNCHANGED outsideWorker

\* stop(), lines 21-23: return at once if not running, else clear the flag
StopCall ==
    /\ spc = "idle"
    /\ IF ~running
         THEN /\ spc' = "returned_early"
              /\ UNCHANGED <<running, heldAtStop>>
         ELSE /\ spc' = "put"
              /\ running' = FALSE
              /\ heldAtStop' = IF IsConnected(client) THEN client ELSE 0
    /\ UNCHANGED <<wpc, cur, queueVars, client, connected, tasks, pollingTask,
                   dequeued, linkCalled, discInvoked>>
    /\ UNCHANGED outsideWorker

\* stop(), lines 24-27: put the ('stop', None) sentinel
StopPut ==
    /\ spc = "put"
    /\ cmdQueue' = Append(cmdQueue, 0)
    /\ spc' = "join"
    /\ UNCHANGED <<workerVars, cmds, results, tasks, histVars>>
    /\ UNCHANGED outsideWorker

\* faulty variant of StopJoin: stop() returns without joining the thread
StopJoin_NoWait ==
    /\ spc = "join"
    /\ spc' = "returned"
    /\ UNCHANGED <<workerVars, queueVars, tasks, histVars>>
    /\ UNCHANGED outsideWorker

\* stop(), line 28: thread.join() returns once the worker thread is gone
StopJoin ==
    /\ spc = "join"
    /\ wpc \in Dead
    /\ spc' = "returned"
    /\ UNCHANGED <<workerVars, queueVars, tasks, histVars>>
    /\ UNCHANGED outsideWorker

\* ------------------------------------------------- main_loop, lines 59-123
\* line 61, `while self.running` evaluated true (after the sleep of line 123)
LoopTest ==
    /\ wpc = "loop"
    /\ NoReady
    /\ running
    /\ wpc' = "get"
    /\ UNCHANGED <<running, cur, queueVars, client, connected, tasks,
                   pollingTask, spc, histVars>>
    /\ UNCHANGED outsideWorker

\* lines 132-135, the end of main_loop: disconnect if connected, drop the
\* handle, return (run_until_complete returns and the loop is closed)
CleanupDisconnect ==
    IF IsConnected(client)
      THEN /\ wpc' = "final_disconnect"
           /\ discInvoked' = discInvoked \cup {client}
           /\ UNCHANGED client
      ELSE /\ wpc' = "exited"
           /\ client' = 0
           /\ UNCHANGED discInvoked

\* faulty variant of LoopExit: the polling task is awaited without having
\* been cancelled
LoopExit_NoCancel ==
    /\ wpc = "loop"
    /\ NoReady
    /\ ~running
    /\ IF PollActive
         THEN /\ wpc' = "gather"
              /\ UNCHANGED <<tasks, client, discInvoked>>
         ELSE /\ CleanupDisconnect
              /\ UNCHANGED tasks
    /\ UNCHANGED <<running, cur, queueVars, connected, pollingTask, spc,
                   dequeued, linkCalled, heldAtStop>>
    /\ UNCHANGED outsideWorker

\* line 61 evaluated false, then lines 125-135 up to the first await
LoopExit ==
    /\ wpc = "loop"
    /\ NoReady
    /\ ~running
    /\ IF PollActive
         THEN /\ tasks' = Cancel(tasks, pollingTask)
              /\ wpc' = "gather"
              /\ UNCHANGED <<client, discInvoked>>
         ELSE /\ CleanupDisconnect
              /\ UNCHANGED tasks
    /\ UNCHANGED <<running, cur, queueVars, connected, pollingTask, spc,
                   dequeued, linkCalled, heldAtStop>>
    /\ UNCHANGED outsideWorker

\* line 128: gather returns once the cancelled polling task is done
GatherDone ==
    /\ wpc = "gather"
    /\ NoReady
    /\ tasks[pollingTask].pc = "done"
    /\ CleanupDisconnect
    /\ UNCHANGED <<running, cur, queueVars, connected, tasks, pollingTask,
                   spc, dequeued, linkCalled, heldAtStop>>
    /\ UNCHANGED outsideWorker

\* line 134 resumes: the final disconnect returned or raised; a raise leaves
\* main_loop with the exception, a return runs line 135
FinalDisconnectDone ==
    /\ wpc = "final_disconnect"
    /\ NoReady
    /\ \E ok \in BOOLEAN, still \in BOOLEAN :
         /\ connected' = [connected EXCEPT ![client] = ~ok /\ still]
         /\ IF ok THEN wpc' = "exited" /\ client' = 0
                  ELSE wpc' = "crashed" /\ UNCHANGED client
    /\ UNCHANGED <<running, cur, queueVars, tasks, pollingTask, spc, histVars>>
    /\ UNCHANGED outsideWorker

\* line 63 raises queue.Empty (lines 120-121), then the sleep of line 123
GetEmpty ==
    /\ wpc = "get"
    /\ cmdQueue = <<>>
    /\ wpc' = "loop"
    /\ UNCHANGED <<running, cur, queueVars, client, connected, tasks,
                   pollingTask, spc, histVars>>
    /\ UNCHANGED outsideWorker

\* the head of the queue is a command of the given kind
HeadIs(kind) ==
    /\ wpc = "get"
    /\ cmdQueue # <<>>
    /\ QueueGet(cmdQueue).item # 0
    /\ cmds[QueueGet(cmdQueue).item].kind = kind

\* bookkeeping common to every dequeue of a command
Take(id) ==
    /\ cmdQueue' = QueueGet(cmdQueue).rest
    /\ dequeued' = Append(dequeued, id)
    /\ UNCHANGED cmds

\* lines 65-69: a new BleakClient replaces self._client, connect() is awaited
GetConnect ==
    /\ HeadIs("connect")
    /\ LET id == QueueGet(cmdQueue).item IN
         /\ Take(id)
         /\ client' = Len(connected) + 1
         /\ connected' = Append(connected, FALSE)
         /\ linkCalled' = linkCalled \cup {id}
         /\ cur' = id
         /\ wpc' = "connect"
    /\ UNCHANGED <<running, results, tasks, pollingTask, spc, discInvoked,
                   heldAtStop>>
    /\ UNCHANGED outsideWorker

\* lines 69-72 resume: connect() returned or raised
ConnectDone ==
    /\ wpc = "connect"
    /\ NoReady
    /\ \E ok \in BOOLEAN :
         /\ connected' = [connected EXCEPT ![client] = ok]
         /\ results' = Put(results, cur, IF ok THEN "success" ELSE "failure")
    /\ cur' = 0
    /\ wpc' = "loop"
    /\ UNCHANGED <<running, cmds, cmdQueue, client, tasks, pollingTask, spc,
                   histVars>>
    /\ UNCHANGED outsideWorker

\* faulty variant of GetDisconnect: the polling task is cancelled as well
GetDisconnect_CancelsPoll ==
    /\ HeadIs("disconnect")
    /\ LET id == QueueGet(cmdQueue).item IN
         /\ Take(id)
         /\ tasks' = IF PollActive THEN Cancel(tasks, pollingTask) ELSE tasks
         /\ IF IsConnected(client)
              THEN /\ discInvoked' = discInvoked \cup {client}
                   /\ linkCalled' = linkCalled \cup {id}
                   /\ cur' = id
                   /\ wpc' = "disconnect"
                   /\ UNCHANGED <<results, client>>
              ELSE /\ results' = Put(results, id, "success")
                   /\ client' = 0
                   /\ wpc' = "loop"
                   /\ UNCHANGED <<cur, discInvoked, linkCalled>>
    /\ UNCHANGED <<running, connected, pollingTask, spc, heldAtStop>>
    /\ UNCHANGED outsideWorker

\* lines 74-83 for 'disconnect'
GetDisconnect ==
    /\ HeadIs("disconnect")
    /\ LET id == QueueGet(cmdQueue).item IN
         /\ Take(id)
         /\ IF IsConnected(client)
              THEN /\ discInvoked' = discInvoked \cup {client}
                   /\ linkCalled' = linkCalled \cup {id}
                   /\ cur' = id
                   /\ wpc' = "disconnect"
                   /\ UNCHANGED <<results, client>>
              ELSE /\ results' = Put(results, id, "success")
                   /\ client' = 0
                   /\ wpc' = "loop"
                   /\ UNCHANGED <<cur, discInvoked, linkCalled>>
    /\ UNCHANGED <<running, connected, tasks, pollingTask, spc, heldAtStop>>
    /\ UNCHANGED outsideWorker

\* faulty variant of DisconnectDone: no finally clause, the handle is dropped
\* only when disconnect() returned
DisconnectDone_KeepsOnRaise ==
    /\ wpc = "disconnect"
    /\ NoReady
    /\ \E ok \in BOOLEAN, still \in BOOLEAN :
         /\ connected' = [connected EXCEPT ![client] = ~ok /\ still]
         /\ results' = Put(results, cur, IF ok THEN "success" ELSE "failure")
         /\ client' = IF ok THEN 0 ELSE client
    /\ cur' = 0
    /\ wpc' = "loop"
    /\ UNCHANGED <<running, cmds, cmdQueue, tasks, pollingTask, spc, histVars>>
    /\ UNCHANGED outsideWorker

\* lines 78-83 resume: disconnect() returned or raised; after a raise the
\* link may or may not still be up
DisconnectDone ==
    /\ wpc = "disconnect"
    /\ NoReady
    /\ \E ok \in BOOLEAN, still \in BOOLEAN :
         /\ connected' = [connected EXCEPT ![client] = ~ok /\ still]
         /\ results' = Put(results, cur, IF ok THEN "success" ELSE "failure")
    /\ client' = 0
    /\ cur' = 0
    /\ wpc' = "loop"
    /\ UNCHANGED <<running, cmds, cmdQueue, tasks, pollingTask, spc, histVars>>
    /\ UNCHANGED outsideWorker

\* lines 74-83 for ('stop', None): q is None, so q.put raises AttributeError
\* in the try block and again in the except block; the finally clause runs
\* and the exception leaves main_loop
GetStop ==
    /\ wpc = "get"
    /\ cmdQueue # <<>>
    /\ QueueGet(cmdQueue).item = 0
    /\ cmdQueue' = QueueGet(cmdQueue).rest
    /\ IF IsConnected(client)
         THEN /\ discInvoked' = discInvoked \cup {client}
              /\ wpc' = "stop_disconnect"
              /\ UNCHANGED client
         ELSE /\ client' = 0
              /\ wpc' = "crashed"
              /\ UNCHANGED discInvoked
    /\ UNCHANGED <<running, cur, cmds, results, connected, tasks, pollingTask,
                   spc, dequeued, linkCalled, heldAtStop>>
    /\ UNCHANGED outsideWorker

StopDisconnectDone ==
    /\ wpc = "stop_disconnect"
    /\ NoReady
    /\ \E ok \in BOOLEAN, still \in BOOLEAN :
         connected' = [connected EXCEPT ![client] = ~ok /\ still]
    /\ client' = 0
    /\ wpc' = "crashed"
    /\ UNCHANGED <<running, cur, queueVars, tasks, pollingTask, spc, histVars>>
    /\ UNCHANGED outsideWorker

\* lines 85-92
GetRead ==
    /\ HeadIs("read")
    /\ LET id == QueueGet(cmdQueue).item IN
         /\ Take(id)
         /\ IF IsConnected(client)
              THEN /\ linkCalled' = linkCalled \cup {id}
                   /\ cur' = id
                   /\ wpc' = "read"
                   /\ UNCHANGED results
              ELSE /\ results' = Put(results, id, "not_connected")
                   /\ wpc' = "loop"
                   /\ UNCHANGED <<cur, linkCalled>>
    /\ UNCHANGED <<running, client, connected, tasks, pollingTask, spc,
                   discInvoked, heldAtStop>>
    /\ UNCHANGED outsideWorker

\* faulty variant of ReadDone: no except clause, a raise leaves main_loop
ReadDone_Propagates ==
    /\ wpc = "read"
    /\ NoReady
    /\ \E ok \in BOOLEAN :
         IF ok THEN /\ results' = Put(results, cur, "value")
                    /\ wpc' = "loop"
               ELSE /\ wpc' = "crashed"
                    /\ UNCHANGED results
    /\ cur' = 0
    /\ UNCHANGED <<running, cmds, cmdQueue, client, connected, tasks,
                   pollingTask, spc, histVars>>
    /\ UNCHANGED outsideWorker

\* lines 89-94 resume: read_gatt_char returned a value or raised
ReadDone ==
    /\ wpc = "read"
    /\ NoReady
    /\ \E ok \in BOOLEAN :
         results' = Put(results, cur, IF ok THEN "value" ELSE "error")
    /\ cur' = 0
    /\ wpc' = "loop"
    /\ UNCHANGED <<running, cmds, cmdQueue, client, connected, tasks,
                   pollingTask, spc, histVars>>
    /\ UNCHANGED outsideWorker

\* lines 96-103
GetWrite ==
    /\ HeadIs("write")
    /\ LET id == QueueGet(cmdQueue).item IN
         /\ Take(id)
         /\ IF IsConnected(client)
              THEN /\ linkCalled' = linkCalled \cup {id}
                   /\ cur' = id
                   /\ wpc' = "write"
                   /\ UNCHANGED results
              ELSE /\ results' = Put(results, id, "not_connected")
                   /\ wpc' = "loop"
                   /\ UNCHANGED <<cur, linkCalled>>
    /\ UNCHANGED <<running, client, connected, tasks, pollingTask, spc,
                   discInvoked, heldAtStop>>
    /\ UNCHANGED outsideWorker

\* faulty variant of WriteDone: the except clause puts nothing
WriteDone_SilentFailure ==
    /\ wpc = "write"
    /\ NoReady
    /\ \E ok \in BOOLEAN :
         results' = IF ok THEN Put(results, cur, "success") ELSE results
    /\ cur' = 0
    /\ wpc' = "loop"
    /\ UNCHANGED <<running, cmds, cmdQueue, client, connected, tasks,
                   pollingTask, spc, histVars>>
    /\ UNCHANGED outsideWorker

\* lines 100-105 resume: write_gatt_char returned or raised
WriteDone ==
    /\ wpc = "write"
    /\ NoReady
    /\ \E ok \in BOOLEAN :
         results' = Put(results, cur, IF ok THEN "success" ELSE "failure")
    /\ cur' = 0
    /\ wpc' = "loop"
    /\ UNCHANGED <<running, cmds, cmdQueue, client, connected, tasks,
                   pollingTask, spc, histVars>>
    /\ UNCHANGED outsideWorker

\* faulty variant of GetList: every task is kept in polling_task
GetList_TracksOneShot ==
    /\ HeadIs("list_characteristics")
    /\ LET id == QueueGet(cmdQueue).item
           ts == IF PollActive THEN Cancel(tasks, pollingTask) ELSE tasks
       IN
         /\ Take(id)
         /\ tasks' = [ts EXCEPT ![id] =
                        [NoTask EXCEPT !.pc = "new", !.client = client,
                                       !.poll = cmds[id].interval > 0]]
         /\ pollingTask' = id
    /\ wpc' = "loop"
    /\ UNCHANGED <<running, cur, results, client, connected, spc, linkCalled,
                   discInvoked, heldAtStop>>
    /\ UNCHANGED outsideWorker

\* lines 107-118: cancel the running polling task (without awaiting it),
\* create the list_characteristics task on the current handle, and track it
\* only if it polls
GetList ==
    /\ HeadIs("list_characteristics")
    /\ LET id == QueueGet(cmdQueue).item
           ts == IF PollActive THEN Cancel(tasks, pollingTask) ELSE tasks
       IN
         /\ Take(id)
         /\ tasks' = [ts EXCEPT ![id] =
                        [NoTask EXCEPT !.pc = "new", !.client = client,
                                       !.poll = cmds[id].interval > 0]]
         /\ pollingTask' = IF cmds[id].interval > 0 THEN id ELSE pollingTask
    /\ wpc' = "loop"
    /\ UNCHANGED <<running, cur, results, client, connected, spc, linkCalled,
                   discInvoked, heldAtStop>>
    /\ UNCHANGED outsideWorker

\* ------------------------- list_characteristics tasks (characteristics.py)
\* The task of command t is run by the loop only while main_loop is suspended.
TaskRunnable(t) ==
    /\ wpc \in LoopIdle
    /\ tasks[t].pc \in {"new", "reading", "sleeping"}

\* read_all_characteristics from characteristic number idx on (lines 5-31):
\* a read on a connected client is awaited; on a client that is not connected
\* read_gatt_char raises at once, the error is recorded in that
\* characteristic's entry and the loop moves on.  After the last
\* characteristic the data is put on the result queue (line 54, lines 57-59)
\* and a polling task sleeps.  The message "data" stands for the list of
\* services, each characteristic's entry holding its value or its error.
ContinueCycle(t, idx) ==
    IF idx < NumChars /\ IsConnected(tasks[t].client)
      THEN /\ tasks' = [tasks EXCEPT ![t].pc = "reading", ![t].idx = idx]
           /\ UNCHANGED results
      ELSE /\ results' = Put(results, t, "data")
           /\ tasks' = [tasks EXCEPT
                          ![t].pc = IF tasks[t].poll THEN "sleeping" ELSE "done",
                          ![t].idx = 0,
                          ![t].cycles = @ + 1]

\* first step of the task, lines 35-53 and 57: the error of lines 36-39 when
\* the handle is None or not connected, else the first read cycle (connect()
\* populates client.services, so lines 41-47 are not taken once connected)
TaskStart(t) ==
    /\ TaskRunnable(t)
    /\ tasks[t].pc = "new"
    /\ ~tasks[t].cancelled
    /\ IF ~IsConnected(tasks[t].client)
         THEN /\ results' = Put(results, t, "not_connected")
              /\ tasks' = [tasks EXCEPT ![t].pc = "done"]
         ELSE ContinueCycle(t, 0)
    /\ UNCHANGED <<workerVars, cmds, cmdQueue, spc, histVars>>
    /\ UNCHANGED outsideWorker

\* line 21 resumes: read_gatt_char returned (lines 22-26) or raised (lines
\* 27-28); either way the characteristic's entry is appended (line 29)
TaskReadDone(t) ==
    /\ TaskRunnable(t)
    /\ tasks[t].pc = "reading"
    /\ NoReady
    /\ ~tasks[t].cancelled
    /\ ContinueCycle(t, tasks[t].idx + 1)
    /\ UNCHANGED <<workerVars, cmds, cmdQueue, spc, histVars>>
    /\ UNCHANGED outsideWorker

\* line 55 resumes: the poll interval elapsed, next cycle (line 53)
TaskWake(t) ==
    /\ TaskRunnable(t)
    /\ tasks[t].pc = "sleeping"
    /\ NoReady
    /\ ~tasks[t].cancelled
    /\ tasks[t].cycles < MaxDeliver
    /\ ContinueCycle(t, 0)
    /\ UNCHANGED <<workerVars, cmds, cmdQueue, spc, histVars>>
    /\ UNCHANGED outsideWorker

\* the task is resumed with CancelledError at its current await (line 21 or
\* 55) or before its first step; CancelledError is a BaseException (the
\* code needs Python >= 3.9 for asyncio.to_thread), so neither
\* `except Exception` clause (lines 27, 61) catches it and the task ends
\* without putting anything
TaskCancelled(t) ==
    /\ TaskRunnable(t)
    /\ tasks[t].cancelled
    /\ tasks' = [tasks EXCEPT ![t].pc = "done"]
    /\ UNCHANGED <<workerVars, queueVars, spc, histVars>>
    /\ UNCHANGED outsideWorker

(***************************************************************************)
(* Part II - CoffeeMachine (src/a53/coffee_machine.py) with the schedule   *)
(* and time codecs it uses (src/schedule_coder.py,                         *)
(* src/parsers/characteristic_parsers.py).                                 *)
(*                                                                         *)
(* The controller is one coroutine.  Every operation first tests           *)
(* `self._is_connected`, then enqueues one worker command at a time and    *)
(* awaits its result queue.  In this part the worker is seen from the      *)
(* controller's side: a FIFO of read/write commands, each answered by one  *)
(* message, the outcome of its Link call chosen by the environment.  A     *)
(* write that succeeds replaces the appliance's characteristic; a write    *)
(* that raises leaves it as it was.                                        *)
(***************************************************************************)

\* ------------------------------------------------- schedule_coder.py
DAYS_OF_WEEK_ORDER == <<"Monday", "Tuesday", "Wednesday", "Thursday",
                        "Friday", "Saturday", "Sunday">>
NumDays == 7        \* range(7)
SlotsPerDay == 3    \* range(3)
SlotBytes == 4      \* '<BBBB'
ScheduleLen == 84   \* bytearray(84)

\* value[offset:offset+4] with offset = (day_index * 3 + slot_index) * 4
SlotAt(value, day_index, slot_index) ==
    LET offset == (day_index * SlotsPerDay + slot_index) * SlotBytes
    IN  SubSeq(value, offset + 1, offset + SlotBytes)

\* any(slot_data)
AnyByte(slot_data) == \E i \in 1..Len(slot_data) : slot_data[i] # 0

\* lines 68-77: the slot dictionary of four bytes (end minute, end hour,
\* start minute, start hour with the boiler bit).  A time text
\* f"{hour:02d}:{minute:02d}" is held as the pair <<hour, minute>> of the
\* numbers it spells: the format pads and never truncates, and
\* map(int, text.split(':')) reads the same two numbers back.
DecodeSlot(slot_data) ==
    [start     |-> <<slot_data[4] % 128, slot_data[3]>>,
     end       |-> <<slot_data[2], slot_data[1]>>,
     boiler_on |-> (slot_data[4] \div 128) % 2 = 1]

\* lines 58-77: the slots of one day, the all-zero ones skipped
DecodeDay(value, day_index) ==
    LET raw == [i \in 1..SlotsPerDay |-> SlotAt(value, day_index, i - 1)]
        set == SelectSeq(raw, AnyByte)
    IN  [i \in 1..Len(set) |-> DecodeSlot(set[i])]

DayIndex(day_name) ==
    CHOOSE d \in 0..(NumDays - 1) : DAYS_OF_WEEK_ORDER[d + 1] = day_name

\* decode_schedule: a dictionary from the names of the days that have a set
\* slot to their slots; {} for a value shorter than 84 bytes
decode_schedule(value) ==
    IF Len(value) < ScheduleLen
      THEN <<>>
      ELSE LET present == {d \in 0..(NumDays - 1) : DecodeDay(value, d) # <<>>}
           IN  [day_name \in {DAYS_OF_WEEK_ORDER[d + 1] : d \in present} |->
                  DecodeDay(value, DayIndex(day_name))]

\* lines 23-39: the four bytes of a slot dictionary
EncodeSlot(slot) ==
    <<slot.end[2], slot.end[1], slot.start[2],
      (slot.start[1] % 128) + (IF slot.boiler_on THEN 128 ELSE 0)>>

\* faulty variant of encode_schedule: entries past the third are written
\* over the day's first slots
encode_schedule_Wrap(schedule_data) ==
    [k \in 1..ScheduleLen |->
       LET day_index  == (k - 1) \div (SlotsPerDay * SlotBytes)
           slot_index == ((k - 1) % (SlotsPerDay * SlotBytes)) \div SlotBytes
           day_name   == DAYS_OF_WEEK_ORDER[day_index + 1]
           slots      == IF day_name \in DOMAIN schedule_data
                           THEN schedule_data[day_name] ELSE <<>>
           last       == IF slot_index + SlotsPerDay < Len(slots)
                           THEN slot_index + SlotsPerDay ELSE slot_index
       IN  IF last < Len(slots)
             THEN EncodeSlot(slots[last + 1])[((k - 1) % SlotBytes) + 1]
             ELSE 0]

\* encode_schedule: the i-th slot of a day's list goes to the day's i-th
\* position, positions without a slot are zero, slots past the third are
\* not written
encode_schedule(schedule_data) ==
    [k \in 1..ScheduleLen |->
       LET day_index  == (k - 1) \div (SlotsPerDay * SlotBytes)
           slot_index == ((k - 1) % (SlotsPerDay * SlotBytes)) \div SlotBytes
           day_name   == DAYS_OF_WEEK_ORDER[day_index + 1]
           slots      == IF day_name \in DOMAIN schedule_data
                           THEN schedule_data[day_name] ELSE <<>>
       IN  IF slot_index < Len(slots)
             THEN EncodeSlot(slots[slot_index + 1])[((k - 1) % SlotBytes) + 1]
             ELSE 0]

\* ------------------------------------------ characteristic_parsers.py
\* DateTimeParser.encode_value; a datetime is the record of its fields
EncodeDateTime(dt) ==
    <<dt.year - 2000, dt.month, dt.day, 0, dt.hour, dt.minute, dt.second>>

\* faulty variant of EncodeTimerState: the two bytes are exchanged
EncodeTimerState_Inverted(enabled) == <<IF enabled THEN 0 ELSE 1>>

\* TimerStateParser.encode_value
EncodeTimerState(enabled) == <<IF enabled THEN 1 ELSE 0>>

\* ------------------------------------------------- datetime arithmetic
DateTime(y, mo, d, h, mi, s) ==
    [year |-> y, month |-> mo, day |-> d, hour |-> h, minute |-> mi,
     second |-> s]

IsLeap(y) == y % 4 = 0 /\ (y % 100 # 0 \/ y % 400 = 0)

DaysInMonth(y, m) ==
    IF m = 2 THEN (IF IsLeap(y) THEN 29 ELSE 28)
    ELSE IF m \in {4, 6, 9, 11} THEN 30 ELSE 31

\* dt - timedelta(minutes=1)
MinusOneMinute(dt) ==
    IF dt.minute > 0 THEN [dt EXCEPT !.minute = @ - 1]
    ELSE IF dt.hour > 0 THEN [dt EXCEPT !.hour = @ - 1, !.minute = 59]
    ELSE IF dt.day > 1
      THEN [dt EXCEPT !.day = @ - 1, !.hour = 23, !.minute = 59]
    ELSE IF dt.month > 1
      THEN [dt EXCEPT !.month = @ - 1,
                      !.day = DaysInMonth(dt.year, dt.month - 1),
                      !.hour = 23, !.minute = 59]
    ELSE [dt EXCEPT !.year = @ - 1, !.month = 12, !.day = 31,
                    !.hour = 23, !.minute = 59]

\* --------------------------------------------------- controller state
\* the characteristics the controller reads and writes
Characteristics == {"timer_state", "schedule", "current_time",
                    "last_sync_time", "brew_boiler", "steam_boiler"}

\* the operations of CoffeeMachine that use the link
Operations == {"get_brew_boiler_temp", "get_steam_boiler_temp",
               "enable_schedule", "get_schedule", "set_schedule",
               "get_current_time", "set_current_time", "set_last_sync_time",
               "power_on", "power_off"}
PowerOperations == {"power_on", "power_off"}

\* new_schedule of _set_power_state, lines 256-268
new_schedule ==
    [day_name \in {DAYS_OF_WEEK_ORDER[d] : d \in 1..NumDays} |->
       IF day_name = "Monday"
         THEN <<[start |-> <<9, 0>>, end |-> <<10, 0>>, boiler_on |-> TRUE]>>
         ELSE <<>>]

\* faulty variant of FixedInstant: power_off also uses an instant in the window
FixedInstant_AlwaysInside(op) == DateTime(2024, 1, 1, 9, 5, 0)

\* `time` of _set_power_state, lines 273-278
FixedInstant(op) ==
    IF op = "power_on" THEN DateTime(2024, 1, 1, 9, 5, 0)
                              ELSE DateTime(2024, 1, 1, 10, 5, 0)

\* values datetime.now() returns (line 293) and callers pass to the setters
WallClocks == {DateTime(2024, 3, 1, 0, 0, 30), DateTime(2025, 7, 6, 23, 59, 59)}

\* schedules the appliance holds before the controller touches it: up to
\* MaxSetSlots of the 21 slots are set
SlotChoices == {<<0, 10, 0, 137>>, <<30, 7, 15, 6>>}
NoSlot == <<0, 0, 0, 0>>
InitialSchedules ==
    LET Positions == 0..(NumDays * SlotsPerDay - 1)
        Picks == [1..MaxSetSlots -> [pos : Positions,
                                     val : SlotChoices \cup {NoSlot}]]
        SlotOf(picks, p) ==
            IF \E i \in 1..MaxSetSlots : picks[i].pos = p
              THEN picks[CHOOSE i \in 1..MaxSetSlots :
                           /\ picks[i].pos = p
                           /\ \A j \in 1..MaxSetSlots :
                                picks[j].pos = p => j <= i].val
              ELSE NoSlot
    IN  {[k \in 1..ScheduleLen |->
            SlotOf(picks, (k - 1) \div SlotBytes)[((k - 1) % SlotBytes) + 1]]
         : picks \in Picks}

Read(uuid) == [kind |-> "read", uuid |-> uuid, value |-> <<>>]
Write(uuid, value) == [kind |-> "write", uuid |-> uuid, value |-> value]
NoReply == [status |-> "none", value |-> <<>>]

\* the controller after CoffeeMachine(address), in front of appliance dev
CtrlFresh(dev) ==
    /\ isConnected = FALSE
    /\ cpc = "idle"
    /\ operation = "none"
    /\ step = 0
    /\ original_schedule = <<>>
    /\ current_local_time = DateTime(0, 0, 0, 0, 0, 0)
    /\ workQueue = <<>>
    /\ reply = NoReply
    /\ issued = <<>>
    /\ device = dev
    /\ deviceAtCall = dev
    /\ workerThread = "new"
    /\ requested = <<>>
    /\ completed = <<>>

BlankDevice ==
    [timer_state    |-> <<0>>,
     schedule       |-> [k \in 1..ScheduleLen |-> 0],
     current_time   |-> EncodeDateTime(DateTime(2024, 1, 1, 0, 0, 0)),
     last_sync_time |-> EncodeDateTime(DateTime(2024, 1, 1, 0, 0, 0)),
     brew_boiler    |-> <<0, 0, 0, 0>>,
     steam_boiler   |-> <<0, 0, 0, 0>>]

\* server.py after import: no CoffeeMachine yet, no request being handled
ServerFresh ==
    /\ coffee_machine = 0
    /\ instances = <<>>
    /\ handler = [h \in 1..NumHandlers |-> [pc |-> "idle", inst |-> 0]]
    /\ disconnected = {}

\* no codec has been applied (the parsers are stateless)
CodecFresh ==
    /\ subject = [form |-> "none", v |-> <<>>]
    /\ applied = <<>>

\* the timestamp argument of set_power_state: None, or a number
NoTimestamp == [given |-> FALSE, t |-> 0]
Given(t) == [given |-> TRUE, t |-> t]

\* time.time(): a reading of the wall clock
WallClock == [clock |-> "time.time", t |-> 0]

\* PowerStateEstimator(window_size=n), lines 22-34
EstimatorFresh(n) ==
    /\ temperatures = <<>>
    /\ timestamps = <<>>
    /\ power_state = "unknown"
    /\ last_change_timestamp = WallClock
    /\ window_size = n
    /\ updates = 0
    /\ overrides = 0
    /\ lastCall = [name |-> "none", state |-> "none", timestamp |-> NoTimestamp,
                   prior |-> "unknown", raised |-> FALSE]
    /\ samples = <<>>

PowerInit ==
    /\ WorkerInit
    /\ ServerFresh
    /\ CodecFresh
    /\ EstimatorFresh(5)
    /\ \E timer \in BOOLEAN, schedule \in InitialSchedules :
         CtrlFresh([BlankDevice EXCEPT !.timer_state = EncodeTimerState(timer),
                                       !.schedule = schedule])

\* ------------------------------------------------- controller actions
\* connect(), lines 38-53, and its outcome.  start() raises RuntimeError
\* unless the worker's thread is new (threading.Thread.start), and the error
\* leaves connect() before anything is enqueued.  Else the Connect command's
\* result decides (the worker side of it is Part I): success sets
\* _is_connected, failure stops the worker and raises ConnectionError.
CtrlConnect ==
    /\ cpc = "idle"
    /\ ~isConnected
    /\ IF workerThread = "new"
         THEN \E ok \in BOOLEAN :
                /\ isConnected' = ok
                /\ workerThread' = IF ok THEN "alive" ELSE "ended"
         ELSE UNCHANGED <<isConnected, workerThread>>
    /\ UNCHANGED <<cpc, operation, step, original_schedule,
                   current_local_time, workQueue, reply, issued, device,
                   deviceAtCall, requested, completed,
                   outsideController>>

\* disconnect(), lines 55-64: the Disconnect result is awaited, the worker
\* stopped and _is_connected cleared
CtrlDisconnect ==
    /\ cpc = "idle"
    /\ isConnected
    /\ isConnected' = FALSE
    /\ workerThread' = "ended"
    /\ UNCHANGED <<cpc, operation, step, original_schedule,
                   current_local_time, workQueue, reply, issued, device,
                   deviceAtCall, requested, completed,
                   outsideController>>

\* the worker command an operation enqueues first (the commands of the
\* single-command operations; get_schedule() for _set_power_state, line 250)
FirstCommand(op, enabled, dt, sd) ==
    CASE op = "get_brew_boiler_temp"  -> Read("brew_boiler")
      [] op = "get_steam_boiler_temp" -> Read("steam_boiler")
      [] op = "enable_schedule" ->
             Write("timer_state", EncodeTimerState(enabled))
      [] op = "get_schedule"          -> Read("schedule")
      [] op = "set_schedule" ->
             Write("schedule", encode_schedule(sd))
      [] op = "get_current_time"      -> Read("current_time")
      [] op = "set_current_time" ->
             Write("current_time", EncodeDateTime(dt))
      [] op = "set_last_sync_time" ->
             Write("last_sync_time", EncodeDateTime(dt))
      [] op \in PowerOperations       -> Read("schedule")

\* faulty variant of Call: the test of _is_connected is missing
Call_Unchecked(op, enabled, dt, sd) ==
    /\ cpc = "idle"
    /\ operation' = op
    /\ cpc' = "await"
    /\ step' = 1
    /\ workQueue' = Append(workQueue, FirstCommand(op, enabled, dt, sd))
    /\ issued' = Append(issued, FirstCommand(op, enabled, dt, sd))
    /\ deviceAtCall' = device
    /\ requested' = IF op = "set_schedule" THEN sd ELSE <<>>
    /\ UNCHANGED <<isConnected, original_schedule, current_local_time,
                   reply, device, workerThread, completed,
                   outsideController>>

\* an operation is called: ConnectionError when not connected (lines 88-89,
\* 118-119, 140-141, 164-165, 187-188, 245-246, 313-314), else its first
\* command is enqueued and its result queue awaited
Call(op, enabled, dt, sd) ==
    /\ cpc = "idle"
    /\ operation' = op
    /\ IF ~isConnected
         THEN /\ cpc' = "ConnectionError"
              /\ UNCHANGED <<step, workQueue, issued, deviceAtCall>>
         ELSE /\ cpc' = "await"
              /\ step' = 1
              /\ workQueue' = Append(workQueue, FirstCommand(op, enabled, dt, sd))
              /\ issued' = Append(issued, FirstCommand(op, enabled, dt, sd))
              /\ deviceAtCall' = device
    /\ requested' = IF op = "set_schedule" THEN sd ELSE <<>>
    /\ UNCHANGED <<isConnected, original_schedule, current_local_time,
                   reply, device, workerThread, completed,
                   outsideController>>

\* the worker services the oldest command (ble_worker.py lines 85-105): the
\* Link call returns or raises; a read returns the characteristic's bytes,
\* a write that returns has replaced them
Serve ==
    /\ workQueue # <<>>
    /\ reply.status = "none"
    /\ LET cmd == Head(workQueue) IN
       \E ok \in BOOLEAN :
         /\ reply' = [status |-> IF ok THEN "ok" ELSE "error",
                      value |-> IF ok /\ cmd.kind = "read"
                                  THEN device[cmd.uuid] ELSE <<>>]
         /\ device' = IF ok /\ cmd.kind = "write"
                        THEN [device EXCEPT ![cmd.uuid] = cmd.value]
                        ELSE device
    /\ workQueue' = Tail(workQueue)
    /\ UNCHANGED <<isConnected, cpc, operation, step, original_schedule,
                   current_local_time, issued, deviceAtCall, workerThread,
                   requested, completed,
                   outsideController>>

\* faulty variant of PowerCommand: the clock is written before the last sync
PowerCommand_ClockFirst(k, op, original, now) ==
    CASE k = 2 -> Write("timer_state", EncodeTimerState(TRUE))
      [] k = 3 -> Write("schedule", encode_schedule(new_schedule))
      [] k = 5 -> Write("last_sync_time",
                        EncodeDateTime(MinusOneMinute(FixedInstant(op))))
      [] k = 4 -> Write("current_time", EncodeDateTime(FixedInstant(op)))
      [] k = 6 -> Write("timer_state", EncodeTimerState(FALSE))
      [] k = 7 -> Write("last_sync_time", EncodeDateTime(now))
      [] k = 8 -> Write("current_time", EncodeDateTime(now))
      [] k = 9 -> Write("schedule", encode_schedule(original))

\* the command of choreography step k >= 2 of _set_power_state: enable the
\* timer (252), temporary schedule (269), last sync (282) and clock (283)
\* at the fixed instant, disable the timer (288), last sync (295) and clock
\* (296) at the wall clock, original schedule (301)
PowerCommand(k, op, original, now) ==
    CASE k = 2 -> Write("timer_state", EncodeTimerState(TRUE))
      [] k = 3 -> Write("schedule", encode_schedule(new_schedule))
      [] k = 4 -> Write("last_sync_time",
                        EncodeDateTime(MinusOneMinute(FixedInstant(op))))
      [] k = 5 -> Write("current_time", EncodeDateTime(FixedInstant(op)))
      [] k = 6 -> Write("timer_state", EncodeTimerState(FALSE))
      [] k = 7 -> Write("last_sync_time", EncodeDateTime(now))
      [] k = 8 -> Write("current_time", EncodeDateTime(now))
      [] k = 9 -> Write("schedule", encode_schedule(original))
\* the number of worker commands of _set_power_state
LastStep == 9

\* the awaited result arrives with an error: the operation raises Exception
\* (lines 95-96, 129-130, 147-148, 176-177, 194-195, 325-326), which leaves
\* _set_power_state at the step that failed
ResumeFailure ==
    /\ cpc = "await"
    /\ reply.status = "error"
    /\ reply' = NoReply
    /\ cpc' = "Exception"
    /\ UNCHANGED <<isConnected, operation, step, original_schedule,
                   current_local_time, workQueue, issued, device,
                   deviceAtCall, workerThread, requested, completed,
                   outsideController>>

\* what an operation returns from the value of its result queue: get_schedule
\* the parsed schedule (lines 150-153), the others None
ReturnValue(op, raw) ==
    IF op = "get_schedule" THEN decode_schedule(raw) ELSE <<>>

\* the awaited result of a single-command operation, or of the last step of
\* the choreography, arrives without error: the operation returns
ResumeReturn ==
    /\ cpc = "await"
    /\ reply.status = "ok"
    /\ operation \notin PowerOperations \/ step = LastStep
    /\ reply' = NoReply
    /\ cpc' = "returned"
    /\ completed' = Append(completed,
                           [op    |-> operation,
                            cmd   |-> Len(issued),
                            arg   |-> requested,
                            value |-> ReturnValue(operation, reply.value)])
    /\ UNCHANGED <<isConnected, operation, step, original_schedule,
                   current_local_time, workQueue, issued, device,
                   deviceAtCall, workerThread, requested,
                   outsideController>>

\* faulty variant of ResumeNext: a failed step is ignored
ResumeNext_IgnoreFailure ==
    /\ cpc = "await"
    /\ reply.status # "none"
    /\ operation \in PowerOperations
    /\ step < LastStep
    /\ \E now \in WallClocks :
         LET original == IF step = 1 /\ reply.status = "ok"
                           THEN decode_schedule(reply.value)
                           ELSE original_schedule
             local    == IF step = 6 THEN now ELSE current_local_time
             cmd      == PowerCommand(step + 1, operation, original, local)
         IN  /\ original_schedule' = original
             /\ current_local_time' = local
             /\ workQueue' = Append(workQueue, cmd)
             /\ issued' = Append(issued, cmd)
    /\ step' = step + 1
    /\ reply' = NoReply
    /\ UNCHANGED <<isConnected, cpc, operation, device, deviceAtCall,
                   workerThread, requested, completed,
                   outsideController>>

\* the awaited result of choreography step 1..8 arrives without error:
\* _set_power_state keeps the decoded schedule (step 1, lines 150-153 and
\* 250), reads the wall clock (after step 6, line 293) and enqueues the
\* command of the next step
ResumeNext ==
    /\ cpc = "await"
    /\ reply.status = "ok"
    /\ operation \in PowerOperations
    /\ step < LastStep
    /\ \E now \in WallClocks :
         LET original == IF step = 1 THEN decode_schedule(reply.value)
                                     ELSE original_schedule
             local    == IF step = 6 THEN now ELSE current_local_time
             cmd      == PowerCommand(step + 1, operation, original, local)
         IN  /\ original_schedule' = original
             /\ current_local_time' = local
             /\ workQueue' = Append(workQueue, cmd)
             /\ issued' = Append(issued, cmd)
    /\ step' = step + 1
    /\ reply' = NoReply
    /\ UNCHANGED <<isConnected, cpc, operation, device, deviceAtCall,
                   workerThread, requested, completed,
                   outsideController>>

\* ------------------------------------------------------------ PowerNext
PowerNext ==
    \/ CtrlConnect
    \/ CtrlDisconnect
    \/ \E op \in Operations, enabled \in BOOLEAN, dt \in WallClocks :
         Call(op, enabled, dt, new_schedule)
    \/ Serve
    \/ ResumeFailure
    \/ ResumeReturn
    \/ ResumeNext

PowerSpec == PowerInit /\ [][PowerNext]_vars

\* ------------------------------------------------- a session of calls
\* The caller awaits one operation after the other, as
\* test_get_and_set_schedule does: once an operation has returned or raised,
\* the caller may call the next one.
Again ==
    /\ cpc \in {"returned", "Exception", "ConnectionError"}
    /\ Len(issued) < MaxCalls
    /\ cpc' = "idle"
    /\ UNCHANGED <<isConnected, operation, step, original_schedule,
                   current_local_time, workQueue, reply, issued, device,
                   deviceAtCall, workerThread, requested, completed,
                   outsideController>>

\* slot dictionaries with valid fields
Entry(sh, sm, eh, em, b) ==
    [start |-> <<sh, sm>>, end |-> <<eh, em>>, boiler_on |-> b]

\* the schedules the callers of a session pass to set_schedule: the one of
\* test_get_and_set_schedule, the one of TestServer, new_schedule with its
\* empty days, one with an entry 00:00-00:00 without boiler, and {}
SessionSchedules ==
    {[day_name \in {"Monday"} |-> <<Entry(6, 0, 9, 0, TRUE)>>],
     [day_name \in {"Monday"} |-> <<Entry(8, 0, 9, 0, TRUE)>>],
     new_schedule,
     [day_name \in {"Sunday"} |->
        <<Entry(0, 0, 0, 0, FALSE), Entry(17, 30, 18, 45, FALSE)>>],
     <<>>}

SessionOperations == {"set_schedule", "get_schedule"}

ScheduleNext ==
    \/ CtrlConnect
    \/ \E op \in SessionOperations, sd \in SessionSchedules :
         Call(op, FALSE, DateTime(2024, 1, 1, 0, 0, 0), sd)
    \/ Serve
    \/ ResumeFailure
    \/ ResumeReturn
    \/ Again

\* the session starts with a new controller in front of the appliance of
\* FakeBleakClient, whose schedule is empty
ScheduleInit ==
    /\ WorkerInit /\ CtrlFresh(BlankDevice) /\ ServerFresh /\ CodecFresh
    /\ EstimatorFresh(5)

ScheduleSpec == ScheduleInit /\ [][ScheduleNext]_vars

(***************************************************************************)
(* Part III - the HTTP server (src/server.py).                             *)
(*                                                                         *)
(* Every route handler is a coroutine that first awaits ensure_connected.  *)
(* Handlers of concurrent requests are interleaved at least at their       *)
(* awaits, which is all this part assumes: an action is the code of one    *)
(* handler between two awaits.  Each CoffeeMachine owns one BLEWorker and  *)
(* its thread ("new" until start(), "alive" while it runs, "ended" after   *)
(* stop()); threading.Thread.start() raises RuntimeError unless the thread *)
(* is new.  A handler is "connecting" while the Connect command it         *)
(* enqueued is with the worker, that is, while the Link connect attempt of *)
(* its instance is pending or in flight.                                   *)
(***************************************************************************)
Handlers == 1..NumHandlers

\* CoffeeMachine.connect() on instance i up to its await (coffee_machine.py
\* lines 42-46), called by handler h with _is_connected false: start() the
\* worker, enqueue the Connect command, await its result.  start() raises
\* RuntimeError when the thread was started before; both callers catch it
\* and return False (server.py lines 32-35, 51-53).
ConnectEntry(h, i, insts) ==
    IF insts[i].thread = "new"
      THEN /\ instances' = [insts EXCEPT ![i].thread = "alive"]
           /\ handler' = [handler EXCEPT
                            ![h] = [pc |-> "connecting", inst |-> i]]
      ELSE /\ instances' = insts
           /\ handler' = [handler EXCEPT ![h].pc = "false"]

\* ensure_connected() up to its first await, lines 37-48
EnsureConnected(h) ==
    /\ handler[h].pc = "idle"
    /\ IF coffee_machine # 0 /\ instances[coffee_machine].is_connected
         THEN /\ handler' = [handler EXCEPT ![h].pc = "true"]
              /\ UNCHANGED instances
         ELSE IF coffee_machine = 0
           THEN /\ handler' = [handler EXCEPT ![h].pc = "discover"]
                /\ UNCHANGED instances
           ELSE ConnectEntry(h, coffee_machine, instances)
    /\ UNCHANGED <<coffee_machine, disconnected, outsideServer>>

\* connect_to_machine_background() resumes from discover(), lines 20-29: no
\* device (or discover raised) returns False; else a new CoffeeMachine
\* replaces the global and its connect() is awaited
DiscoverDone(h) ==
    /\ handler[h].pc = "discover"
    /\ \E found \in BOOLEAN :
         IF found
           THEN LET i == Len(instances) + 1 IN
                /\ coffee_machine' = i
                /\ ConnectEntry(h, i, Append(instances,
                       [is_connected |-> FALSE, thread |-> "new"]))
           ELSE /\ handler' = [handler EXCEPT ![h].pc = "false"]
                /\ UNCHANGED <<coffee_machine, instances>>
    /\ UNCHANGED <<disconnected, outsideServer>>

\* CoffeeMachine.connect() resumes with the Connect result (coffee_machine.py
\* lines 46-53): success sets _is_connected; failure stops the worker and
\* raises ConnectionError, which both callers turn into False
ConnectReturn(h) ==
    /\ handler[h].pc = "connecting"
    /\ \E ok \in BOOLEAN :
         IF ok
           THEN /\ instances' = [instances EXCEPT
                                   ![handler[h].inst].is_connected = TRUE]
                /\ handler' = [handler EXCEPT ![h].pc = "true"]
           ELSE /\ instances' = [instances EXCEPT
                                   ![handler[h].inst].thread = "ended"]
                /\ handler' = [handler EXCEPT ![h].pc = "false"]
    /\ UNCHANGED <<coffee_machine, disconnected, outsideServer>>

\* the request is answered (503 after False, the route's work after True);
\* the handler is free for the next request
Respond(h) ==
    /\ handler[h].pc \in {"true", "false"}
    /\ handler' = [handler EXCEPT ![h] = [pc |-> "idle", inst |-> 0]]
    /\ UNCHANGED <<coffee_machine, instances, disconnected, outsideServer>>

\* POST /api/disconnect, lines 138-145, with CoffeeMachine.disconnect() up
\* to its await (coffee_machine.py lines 59-61)
DisconnectRequest(h) ==
    /\ handler[h].pc = "idle"
    /\ coffee_machine # 0
    /\ instances[coffee_machine].is_connected
    /\ handler' = [handler EXCEPT
                     ![h] = [pc |-> "disconnecting", inst |-> coffee_machine]]
    /\ UNCHANGED <<coffee_machine, instances, disconnected, outsideServer>>

\* CoffeeMachine.disconnect() resumes (coffee_machine.py lines 61-64): the
\* worker is stopped and _is_connected cleared
DisconnectReturn(h) ==
    /\ handler[h].pc = "disconnecting"
    /\ instances' = [instances EXCEPT
                       ![handler[h].inst] =
                           [is_connected |-> FALSE, thread |-> "ended"]]
    /\ handler' = [handler EXCEPT ![h] = [pc |-> "idle", inst |-> 0]]
    /\ disconnected' = disconnected \cup {handler[h].inst}
    /\ UNCHANGED <<coffee_machine, outsideServer>>

\* ----------------------------------------------------------- ServerNext
ServerNext ==
    \/ \E h \in Handlers : EnsureConnected(h)
    \/ \E h \in Handlers : DiscoverDone(h)
    \/ \E h \in Handlers : ConnectReturn(h)
    \/ \E h \in Handlers : Respond(h)
    \/ \E h \in Handlers : DisconnectRequest(h)
    \/ \E h \in Handlers : DisconnectReturn(h)

ServerInit ==
    /\ WorkerInit /\ CtrlFresh(BlankDevice) /\ ServerFresh /\ CodecFresh
    /\ EstimatorFresh(5)

ServerSpec == ServerInit /\ [][ServerNext]_vars

(***************************************************************************)
(* Part IV - the codecs (src/schedule_coder.py and                         *)
(* src/parsers/characteristic_parsers.py) as pure functions.               *)
(*                                                                         *)
(* A value is drawn at the start: a schedule payload, a weekly schedule,   *)
(* a datetime or a boiler payload.  Every action applies one codec         *)
(* function to the value at hand and records the application, so that a    *)
(* round trip is a run of two or three actions.  A text is the sequence of *)
(* its characters.                                                         *)
(***************************************************************************)
Digit(n) == <<"0", "1", "2", "3", "4", "5", "6", "7", "8", "9">>[n + 1]

\* the decimal digits of a natural number, str(n)
RECURSIVE DigitsOf(_)
DigitsOf(n) ==
    IF n < 10 THEN <<Digit(n)>>
              ELSE Append(DigitsOf(n \div 10), Digit(n % 10))

\* f"{n:0<width>d}": zeros in front up to the width, never truncated
Pad(n, width) ==
    LET d == DigitsOf(n)
    IN  [i \in 1..(IF Len(d) < width THEN width - Len(d) ELSE 0) |-> "0"] \o d

\* int(text) of a text of decimal digits
RECURSIVE NumberOf(_)
NumberOf(text) ==
    IF text = <<>> THEN 0
    ELSE LET last == text[Len(text)]
         IN  10 * NumberOf(SubSeq(text, 1, Len(text) - 1))
               + (CHOOSE n \in 0..9 : Digit(n) = last)

IsDigits(text) ==
    \A i \in 1..Len(text) : \E n \in 0..9 : Digit(n) = text[i]

\* faulty variant of ParseDateTime: the year is taken without the century
ParseDateTime_NoCentury(payload) ==
    IF Len(payload) >= 7
      THEN Pad(payload[1], 4) \o <<"-">> \o Pad(payload[2], 2) \o <<"-">>
             \o Pad(payload[3], 2) \o <<" ">> \o Pad(payload[5], 2) \o <<":">>
             \o Pad(payload[6], 2) \o <<":">> \o Pad(payload[7], 2)
      ELSE <<>>

\* DateTimeParser.parse_value, lines 25-36: the text dt_str of the single
\* (description, dt_str) pair; the empty text stands for None
ParseDateTime(payload) ==
    IF Len(payload) >= 7
      THEN Pad(payload[1] + 2000, 4) \o <<"-">> \o Pad(payload[2], 2)
             \o <<"-">> \o Pad(payload[3], 2) \o <<" ">>
             \o Pad(payload[5], 2) \o <<":">> \o Pad(payload[6], 2)
             \o <<":">> \o Pad(payload[7], 2)
      ELSE <<>>

\* the outcome of a call: the value returned or the exception raised
Returns(v) == [raised |-> FALSE, v |-> v]
Raises(exception) == [raised |-> TRUE, v |-> exception]

\* datetime.strptime(dt_str, "%Y-%m-%d %H:%M:%S") of get_current_time, line
\* 204, for texts of the padded form; "ValueError" when the text is not of
\* that form or does not name a date and a time
Strptime(text) ==
    LET Field(a, b) == SubSeq(text, a, b)
        wellFormed ==
            /\ Len(text) = 19
            /\ text[5] = "-" /\ text[8] = "-" /\ text[11] = " "
            /\ text[14] = ":" /\ text[17] = ":"
            /\ \A f \in {<<1, 4>>, <<6, 7>>, <<9, 10>>, <<12, 13>>,
                          <<15, 16>>, <<18, 19>>} : IsDigits(Field(f[1], f[2]))
        dt == DateTime(NumberOf(Field(1, 4)), NumberOf(Field(6, 7)),
                       NumberOf(Field(9, 10)), NumberOf(Field(12, 13)),
                       NumberOf(Field(15, 16)), NumberOf(Field(18, 19)))
    IN  IF /\ wellFormed
           /\ dt.year >= 1 /\ dt.month \in 1..12
           /\ dt.day \in 1..DaysInMonth(dt.year, dt.month)
           /\ dt.hour \in 0..23 /\ dt.minute \in 0..59
           /\ dt.second \in 0..61
          THEN Returns(dt)
          ELSE Raises("ValueError")

\* f"{percentage:.0f}%" of BoilerParser.parse_value, lines 92-101: the
\* status byte as a percentage of 3 (Brew) or 4 (Steam), rounded to the
\* nearest whole number
PercentageText(name, status_code_byte) ==
    LET percentage ==
            CASE name = "Brew"  -> (200 * status_code_byte + 3) \div 6
              [] name = "Steam" -> 25 * status_code_byte
              [] OTHER          -> 0
    IN  DigitsOf(percentage) \o <<"%">>

\* f"{temperature} C" with temperature = temp_raw / 10.0, lines 88-90
TemperatureText(temp_raw) ==
    DigitsOf(temp_raw \div 10) \o <<".", Digit(temp_raw % 10), " ", "C">>

\* BoilerParser.parse_value: the two (description, text) pairs, the status
\* inserted in front of the temperature; <<>> stands for None
BoilerParse(name, payload) ==
    IF Len(payload) < 4
      THEN <<>>
      ELSE LET temp_raw == payload[1] + 256 * payload[2]
               status_code_byte == payload[2]
           IN  <<<<name, "Boiler Status",
                   PercentageText(name, status_code_byte)>>,
                 <<name, "Boiler Temp", TemperatureText(temp_raw)>>>>

\* _get_boiler_data, lines 98-109: the dictionary made of the parsed pairs
BoilerData(name, raw_data) ==
    LET parsed_data == BoilerParse(name, raw_data)
    IN  IF Len(parsed_data) >= 2
          THEN [name |-> name, state |-> parsed_data[1][3],
                temp |-> parsed_data[2][3]]
          ELSE [name |-> name, state |-> <<"Unknown">>,
                temp |-> <<"Unknown">>]

\* ------------------------------------------------------- codec inputs
\* payloads read from the schedule characteristic: whole ones and ones cut
\* short
SchedulePayloads ==
    InitialSchedules \cup
    {SubSeq(b, 1, n) : b \in InitialSchedules,
                       n \in {0, SlotBytes, ScheduleLen - 1}}

EntryChoices == {Entry(6, 0, 9, 0, TRUE), Entry(17, 30, 18, 45, FALSE),
                 Entry(0, 0, 0, 0, FALSE)}
EntryLists == UNION {[1..n -> EntryChoices] : n \in 0..MaxEntries}

\* weekly schedules given to encode_schedule: those of the sessions, and
\* every list of up to MaxEntries entries on the first or the last day
WeeklySchedules ==
    SessionSchedules \cup
    {[day_name \in {d} |-> q] : d \in {"Monday", "Sunday"}, q \in EntryLists}

\* appliance times at the ends and inside the representable range
ApplianceTimes ==
    {DateTime(y, mo, d, h, mi, sec) :
       y \in {2000, 2024, 2255}, mo \in {1, 2, 12}, d \in {1, 29, 31},
       h \in {0, 23}, mi \in {0, 59}, sec \in {0, 59}}
    \cap {dt \in [year : {2000, 2024, 2255}, month : 1..12, day : 1..31,
                   hour : 0..23, minute : 0..59, second : 0..59] :
             dt.day <= DaysInMonth(dt.year, dt.month)}

\* boiler payloads: 90.0 and 120.0 degrees as FakeBleakClient serves them,
\* the payload of test_get_brew_boiler_temp, a cold boiler, a short payload
BoilerPayloads ==
    {<<132, 3, 1, 0>>, <<176, 4, 1, 0>>, <<20, 5, 1, 0>>, <<200, 0, 0, 0>>,
     <<132, 3, 1>>}

CodecInit ==
    /\ WorkerInit /\ CtrlFresh(BlankDevice) /\ ServerFresh
    /\ EstimatorFresh(5)
    /\ applied = <<>>
    /\ \/ \E b \in SchedulePayloads :
            subject = [form |-> "schedule_bytes", v |-> b]
       \/ \E sd \in WeeklySchedules :
            subject = [form |-> "schedule", v |-> sd]
       \/ \E dt \in ApplianceTimes :
            subject = [form |-> "datetime", v |-> dt]
       \/ \E b \in BoilerPayloads :
            subject = [form |-> "boiler_bytes", v |-> b]

\* ------------------------------------------------------ codec actions
\* one function is applied to the value at hand; a function that raises
\* leaves no value to go on with
Apply(fn, form, outcome) ==
    /\ Len(applied) < MaxApply
    /\ applied' = Append(applied, [fn |-> fn, arg |-> subject.v,
                                   raised |-> outcome.raised,
                                   res |-> outcome.v])
    /\ subject' = [form |-> IF outcome.raised THEN "raised" ELSE form,
                   v |-> outcome.v]
    /\ UNCHANGED outsideCodecs

\* ScheduleCoder.decode_schedule has no raise statement, and struct.unpack
\* of a four-byte slice cannot fail
DecodeSchedule ==
    /\ subject.form = "schedule_bytes"
    /\ Apply("decode_schedule", "schedule",
             Returns(decode_schedule(subject.v)))

\* ScheduleCoder.encode_schedule of slot dictionaries with valid fields
EncodeSchedule ==
    /\ subject.form = "schedule"
    /\ Apply("encode_schedule", "schedule_bytes",
             Returns(encode_schedule(subject.v)))

\* DateTimeParser.encode_value: bytearray() raises ValueError for a number
\* outside 0..255
EncodeTime ==
    /\ subject.form = "datetime"
    /\ Apply("encode_value", "time_bytes",
             IF \A k \in 1..7 : EncodeDateTime(subject.v)[k] \in 0..255
               THEN Returns(EncodeDateTime(subject.v))
               ELSE Raises("ValueError"))

ParseTime ==
    /\ subject.form = "time_bytes"
    /\ Apply("parse_value", "time_text", Returns(ParseDateTime(subject.v)))

ReadTime ==
    /\ subject.form = "time_text"
    /\ Apply("strptime", "datetime", Strptime(subject.v))

GetBoilerData(name) ==
    /\ subject.form = "boiler_bytes"
    /\ Apply("_get_boiler_data", "boiler_data",
             Returns(BoilerData(name, subject.v)))

CodecNext ==
    \/ DecodeSchedule
    \/ EncodeSchedule
    \/ EncodeTime
    \/ ParseTime
    \/ ReadTime
    \/ \E name \in {"Brew", "Steam"} : GetBoilerData(name)

CodecSpec == CodecInit /\ [][CodecNext]_vars


(***************************************************************************)
(* Part V - the power state estimator                                      *)
(* (src/a53/common/power_state_estimator.py).                              *)
(*                                                                         *)
(* Temperatures are whole degrees and timestamps whole seconds, so that    *)
(* the comparisons of mean, slope and standard deviation with their        *)
(* thresholds are comparisons of integers:                                 *)
(*   slope = (n Sxy - Sx Sy) / (n Sxx - Sx Sx),                            *)
(*   stdev^2 = (n Syy - Sy Sy) / (n (n - 1)),   mean = Sy / n.             *)
(* linear_regression raises StatisticsError when all the timestamps of the *)
(* window are equal.  _slope and _stddev are never written after           *)
(* construction and are left out.                                          *)
(***************************************************************************)
TargetTemp == 95   \* target_temp=95.0

PowerStates == {"on", "off", "warming_up", "unknown"}

RECURSIVE Sum(_)
Sum(q) == IF q = <<>> THEN 0 ELSE Head(q) + Sum(Tail(q))

\* the sequence of the products of the members of two sequences
Products(p, q) == [i \in 1..Len(p) |-> p[i] * q[i]]

\* faulty variant of DequeAppend: a full deque drops the new member
DequeAppend_KeepOldest(q, x, n) ==
    IF Len(q) >= n THEN q ELSE Append(q, x)

\* deque(maxlen=n).append(x)
DequeAppend(q, x, n) ==
    LET a == Append(q, x)
    IN  IF Len(a) > n THEN SubSeq(a, Len(a) - n + 1, Len(a)) ELSE a

\* mean_temp >= target - 5 or temperature >= target, line 86
OnCondition(temps) ==
    \/ Sum(temps) >= Len(temps) * (TargetTemp - 5)
    \/ temps[Len(temps)] >= TargetTemp

\* faulty variant of WarmingCondition: the standard deviation is not tested
WarmingCondition_SlopeOnly(temps, times) ==
    LET n == Len(temps) IN
    20 * (n * Sum(Products(times, temps)) - Sum(times) * Sum(temps))
      > n * Sum(Products(times, times)) - Sum(times) * Sum(times)

\* slope > 0.05 and stddev > 0.5, line 89
WarmingCondition(temps, times) ==
    LET n == Len(temps) IN
    /\ 20 * (n * Sum(Products(times, temps)) - Sum(times) * Sum(temps))
         > n * Sum(Products(times, times)) - Sum(times) * Sum(times)
    /\ 4 * (n * Sum(Products(temps, temps)) - Sum(temps) * Sum(temps))
         > n * (n - 1)

\* slope < -0.01 and mean_temp < target - 5, line 92
OffCondition(temps, times) ==
    LET n == Len(temps) IN
    /\ 100 * (n * Sum(Products(times, temps)) - Sum(times) * Sum(temps))
         < - (n * Sum(Products(times, times)) - Sum(times) * Sum(times))
    /\ Sum(temps) < n * (TargetTemp - 5)

\* the x of linear_regression is constant
ConstantTimes(times) == \A i \in 1..Len(times) : times[i] = times[1]

\* what a call does to the state: nothing, or set_power_state(state, timestamp)
Keep(r) == [raised |-> r, set |-> FALSE, state |-> "unknown",
            timestamp |-> NoTimestamp]
SetTo(state, timestamp) ==
    [raised |-> FALSE, set |-> TRUE, state |-> state, timestamp |-> timestamp]

\* faulty variant of Recalculate: when no rule fires the state becomes Off
Recalculate_OffWhenNoRule(temps, times) ==
    LET current_time == times[Len(times)] IN
    IF Len(temps) < 4 THEN SetTo("unknown", NoTimestamp)
    ELSE IF ConstantTimes(times) THEN Keep(TRUE)
    ELSE IF OnCondition(temps) THEN SetTo("on", Given(current_time))
    ELSE IF WarmingCondition(temps, times)
      THEN SetTo("warming_up", Given(current_time))
    ELSE SetTo("off", Given(current_time))

\* faulty variant of Recalculate: a short window leaves the state as it is
Recalculate_KeepWhenShort(temps, times) ==
    LET current_time == times[Len(times)] IN
    IF Len(temps) < 4 THEN Keep(FALSE)
    ELSE IF ConstantTimes(times) THEN Keep(TRUE)
    ELSE IF OnCondition(temps) THEN SetTo("on", Given(current_time))
    ELSE IF WarmingCondition(temps, times)
      THEN SetTo("warming_up", Given(current_time))
    ELSE IF OffCondition(temps, times) THEN SetTo("off", Given(current_time))
    ELSE Keep(FALSE)

\* _recalculate_power_state, lines 73-94, on the windows after the append
Recalculate(temps, times) ==
    LET current_time == times[Len(times)] IN
    IF Len(temps) < 4 THEN SetTo("unknown", NoTimestamp)
    ELSE IF ConstantTimes(times) THEN Keep(TRUE)
    ELSE IF OnCondition(temps) THEN SetTo("on", Given(current_time))
    ELSE IF WarmingCondition(temps, times)
      THEN SetTo("warming_up", Given(current_time))
    ELSE IF OffCondition(temps, times) THEN SetTo("off", Given(current_time))
    ELSE Keep(FALSE)

\* faulty variant of SetPowerStateTo: the timestamp argument is ignored
SetPowerStateTo_WallClockOnly(effect) ==
    IF effect.set /\ effect.state # power_state
      THEN /\ power_state' = effect.state
           /\ last_change_timestamp' = WallClock
      ELSE UNCHANGED <<power_state, last_change_timestamp>>

\* faulty variant of SetPowerStateTo: the timestamp is taken at every call
SetPowerStateTo_StampAlways(effect) ==
    IF effect.set
      THEN /\ power_state' = effect.state
           /\ last_change_timestamp' =
                 IF effect.timestamp.given
                   THEN [clock |-> "argument", t |-> effect.timestamp.t]
                   ELSE WallClock
      ELSE UNCHANGED <<power_state, last_change_timestamp>>

\* set_power_state, lines 52-57: state and last-change timestamp change only
\* if the state differs
SetPowerStateTo(effect) ==
    IF effect.set /\ effect.state # power_state
      THEN /\ power_state' = effect.state
           /\ last_change_timestamp' =
                 IF effect.timestamp.given
                   THEN [clock |-> "argument", t |-> effect.timestamp.t]
                   ELSE WallClock
      ELSE UNCHANGED <<power_state, last_change_timestamp>>

\* the readings and the milliseconds between two readings
Readings == {60, 61, 100}
TimeSteps == {0, 1000}
WindowSizes == {3, 5}

EstimatorInit ==
    /\ WorkerInit /\ CtrlFresh(BlankDevice) /\ ServerFresh /\ CodecFresh
    /\ \E n \in WindowSizes : EstimatorFresh(n)

\* temperature_updated(temperature, current_time_ms), lines 65-71
TemperatureUpdated(temperature, current_time_ms) ==
    /\ updates < MaxUpdates
    /\ LET current_time == current_time_ms \div 1000
           temps == DequeAppend(temperatures, temperature, window_size)
           times == DequeAppend(timestamps, current_time, window_size)
           effect == Recalculate(temps, times)
       IN  /\ temperatures' = temps
           /\ timestamps' = times
           /\ SetPowerStateTo(effect)
           /\ lastCall' = [name |-> "temperature_updated", state |-> "none",
                           timestamp |-> NoTimestamp,
                           prior |-> power_state, raised |-> effect.raised]
           /\ samples' = Append(samples, <<current_time, temperature>>)
    /\ updates' = updates + 1
    /\ UNCHANGED <<window_size, overrides, outsideEstimator>>

\* a caller's set_power_state(state, timestamp)
SetPowerState(state, timestamp) ==
    /\ overrides < MaxOverrides
    /\ SetPowerStateTo(SetTo(state, timestamp))
    /\ lastCall' = [name |-> "set_power_state", state |-> state,
                    timestamp |-> timestamp, prior |-> power_state,
                    raised |-> FALSE]
    /\ overrides' = overrides + 1
    /\ UNCHANGED <<temperatures, timestamps, window_size, updates, samples,
                   outsideEstimator>>

\* the time of the latest reading, in milliseconds
LatestMs == IF timestamps = <<>> THEN 0
                                ELSE 1000 * timestamps[Len(timestamps)]

EstimatorNext ==
    \/ \E temperature \in Readings, step_ms \in TimeSteps :
         TemperatureUpdated(temperature, LatestMs + step_ms)
    \/ \E state \in PowerStates, timestamp \in {NoTimestamp, Given(5000)} :
         SetPowerState(state, timestamp)

EstimatorSpec == EstimatorInit /\ [][EstimatorNext]_vars

\* -------------------------------------------------------------------- Next
Next ==
    \/ Start
    \/ \E kind \in Kinds, interval \in {0, 1} : Enqueue(kind, interval)
    \/ StopCall
    \/ StopPut
    \/ StopJoin
    \/ LoopTest
    \/ LoopExit
    \/ GatherDone
    \/ FinalDisconnectDone
    \/ GetEmpty
    \/ GetConnect
    \/ ConnectDone
    \/ GetDisconnect
    \/ DisconnectDone
    \/ GetStop
    \/ StopDisconnectDone
    \/ GetRead
    \/ ReadDone
    \/ GetWrite
    \/ WriteDone
    \/ GetList
    \/ \E t \in CmdIds : TaskStart(t)
    \/ \E t \in CmdIds : TaskReadDone(t)
    \/ \E t \in CmdIds : TaskWake(t)
    \/ \E t \in CmdIds : TaskCancelled(t)

\* Part I on its own: the controller is not modelled, the callers of the
\* worker are the environment
Init ==
    /\ WorkerInit /\ CtrlFresh(BlankDevice) /\ ServerFresh /\ CodecFresh
    /\ EstimatorFresh(5)

Spec == Init /\ [][Next]_vars

\* one step of main_loop (the worker thread outside the list tasks)
MainLoopStep ==
    \/ LoopTest \/ LoopExit \/ GatherDone \/ FinalDisconnectDone \/ GetEmpty
    \/ GetConnect \/ ConnectDone \/ GetDisconnect \/ DisconnectDone
    \/ GetStop \/ StopDisconnectDone \/ GetRead \/ ReadDone \/ GetWrite
    \/ WriteDone \/ GetList

\* one step of the list_characteristics task of command t, run by the event loop
TaskStep(t) ==
    TaskStart(t) \/ TaskReadDone(t) \/ TaskWake(t) \/ TaskCancelled(t)

\* Scheduling.  The worker thread and the thread inside stop() are operating
\* system threads: each runs whenever it can (a Link call that is awaited
\* returns or raises).  The event loop runs every task that is ready or whose
\* timer is due each time main_loop is suspended in its sleep of line 123,
\* so a task that can run again and again whenever main_loop sleeps does run.
Fairness ==
    /\ WF_vars(StopPut)
    /\ WF_vars(StopJoin)
    /\ WF_vars(MainLoopStep)
    /\ SF_vars(\E t \in CmdIds : TaskStep(t))

FairSpec == Init /\ [][Next]_vars /\ Fairness


\* ------------------------------------------------------ derived notions
Range(q) == {q[i] : i \in 1..Len(q)}
Enqueued == 1..Len(cmds)
Direct(c) == cmds[c].kind \in DirectKinds
\* the handle main_loop holds is a connected client (written out, so that
\* the properties below do not depend on the model's own connection test)
HoldsConnected == client # 0 /\ connected[client]
\* main_loop is about to take command c of one of the given kinds off the queue
AboutToService(c, kinds) ==
    /\ wpc = "get"
    /\ cmdQueue # <<>>
    /\ Head(cmdQueue) = c
    /\ c # 0
    /\ cmds[c].kind \in kinds
\* the step is main_loop's handling of the dequeued item
HandlerStep == wpc = "get" /\ wpc' # "get"
\* clients whose link is up
Open == {c \in 1..Len(connected) : connected[c]}
\* poll tasks that were created and have not terminated
LivePolls == {t \in CmdIds : tasks[t].poll
                             /\ tasks[t].pc \in {"new", "reading", "sleeping"}}
\* poll task t was replaced by the task of a later Poll command
Superseded(t) ==
    /\ tasks[t].poll
    /\ tasks[t].pc # "none"
    /\ \E u \in CmdIds : u > t /\ tasks[u].poll /\ tasks[u].pc # "none"

\* ------------------------------------------------------------------ claims

\* C1: every Connect, Disconnect, Read or Write command the worker has
\* dequeued and finished servicing has exactly one message on its own result
\* queue; no such queue ever holds two messages, and none holds a message
\* before its command is dequeued or while its Link call is in flight.
C1_ExactlyOneResult ==
    \A c \in Enqueued : Direct(c) =>
        /\ Len(results[c]) <= 1
        /\ (c \in Range(dequeued) /\ c # cur) => Len(results[c]) = 1
        /\ (c \notin Range(dequeued) \/ c = cur) => Len(results[c]) = 0

\* C1 witness: one command answered after its Link call returned, one after
\* its Link call raised, one skipped for want of a connection.
C1_Witness ==
    \E a, b, c \in Enqueued :
        /\ Direct(a) /\ a \in linkCalled /\ results[a] \in {<<"success">>, <<"value">>}
        /\ Direct(b) /\ b \in linkCalled /\ results[b] \in {<<"failure">>, <<"error">>}
        /\ Direct(c) /\ c \notin linkCalled /\ results[c] = <<"not_connected">>

\* C2 (as written): every Connect, Disconnect, Read or Write command enqueued
\* on a started worker eventually receives its result.  Once the worker
\* thread has terminated nothing can put a result any more, so the claim
\* requires every such command to be answered by then.
C2_AnsweredBeforeWorkerEnds ==
    wpc \in Dead => \A c \in Enqueued : Direct(c) => Len(results[c]) >= 1

\* C3 (as written): for commands a enqueued before b of any kind, a's result
\* is delivered before the worker begins b's Link call.
C3_ResultBeforeNextLinkCall ==
    \A a, b \in Enqueued :
        (a < b /\ b \in linkCalled) => Len(results[a]) >= 1

\* C3 (amended): commands are dequeued in enqueue order, and before the
\* worker begins a command b every command a enqueued earlier has been
\* handled: a Connect, Disconnect, Read or Write has its result delivered,
\* a list/poll command has its task created (its results may come later).
C3_FifoDirectCommands ==
    /\ \A i \in 1..Len(dequeued) : dequeued[i] = i
    /\ \A a, b \in Enqueued :
         (a < b /\ b \in Range(dequeued)) =>
            /\ Direct(a) => Len(results[a]) = 1
            /\ ~Direct(a) => tasks[a].pc # "none"

\* C3 witness: a Connect answered, then a list command whose task has not
\* delivered yet, then a command whose Link call has begun.
C3_Witness ==
    \E a, b, c \in Enqueued :
        /\ a < b /\ b < c
        /\ Direct(a) /\ Len(results[a]) = 1
        /\ ~Direct(b) /\ tasks[b].pc # "none" /\ results[b] = <<>>
        /\ c \in linkCalled

\* C4 (as written): at most one Link call is in flight at any instant,
\* counting the reads of list/poll tasks.
C4_AtMostOneInFlight == InFlight <= 1

\* C5 (as written): at most one connection is open, and the worker never
\* replaces or drops a handle that is still connected without having invoked
\* disconnect on it.
C5_SingleConnection ==
    [][ /\ Cardinality(Open') <= 1
        /\ (HoldsConnected /\ client' # client) => client \in discInvoked'
      ]_vars

\* C6 (as written): a Connect serviced while connected delivers success,
\* makes no Link call and creates no client.
C6_ConnectWhileConnectedIsNoop ==
    [][ \A c \in CmdIds :
          (AboutToService(c, {"connect"}) /\ HoldsConnected /\ HandlerStep) =>
             /\ results' = [results EXCEPT ![c] = <<"success">>]
             /\ c \notin linkCalled'
             /\ UNCHANGED <<client, connected>>
      ]_vars

\* C7: a Read or Write serviced while the worker has no connected client puts
\* the "Not connected" error on the command's queue in that same step, makes
\* no Link call, and leaves the handle, the clients, the tasks, the polling
\* task and the running flag as they were.
C7_NotConnectedError ==
    [][ \A c \in CmdIds :
          (AboutToService(c, {"read", "write"}) /\ ~HoldsConnected
             /\ HandlerStep) =>
             /\ results' = [results EXCEPT ![c] = <<"not_connected">>]
             /\ c \notin linkCalled'
             /\ wpc' = "loop"
             /\ UNCHANGED <<client, connected, tasks, pollingTask, running>>
      ]_vars

\* C7 witness: not-connected errors delivered for a command serviced with a
\* handle whose connect failed and for one serviced with no handle.
C7_Witness ==
    \E a, b \in Enqueued :
        /\ cmds[a].kind = "connect" /\ results[a] = <<"failure">>
        /\ a < b
        /\ cmds[b].kind \in {"read", "write"}
        /\ results[b] = <<"not_connected">>
        /\ b \notin linkCalled
        /\ client # 0 /\ ~connected[client]

\* C8 (as written): two poll tasks that have not terminated never coexist.
C8_AtMostOnePollTask == Cardinality(LivePolls) <= 1

\* C9: once a poll task has been superseded by the task of a later Poll
\* command, no step puts anything on the superseded task's queue; only the
\* newest poll task can deliver.
C9_SupersededTaskSilent ==
    [][ \A t \in CmdIds : Superseded(t) => results'[t] = results[t] ]_vars

\* C9 witness: a poll task that delivered was superseded, and the task that
\* replaced it has delivered twice since.
C9_Witness ==
    \E t, u \in CmdIds :
        /\ t < u
        /\ Superseded(t) /\ Len(results[t]) >= 1 /\ tasks[t].pc = "done"
        /\ tasks[u].poll /\ pollingTask = u
        /\ results[u] = <<"data", "data">>

\* C10 (as written): if the worker holds a connected client when stop() is
\* called, disconnect has been invoked - on that client or on one that
\* replaced it - by the time the worker thread has terminated.
C10_DisconnectBeforeTermination ==
    (wpc \in Dead /\ heldAtStop # 0) =>
        \E c \in discInvoked : c >= heldAtStop

\* C11 (as written): when the worker thread has terminated, every poll task
\* that was created has terminated too (it was cancelled and its
\* termination awaited); no poll task is left suspended on the dead loop.
C11_PollTaskEndsBeforeWorker ==
    wpc \in Dead =>
        \A t \in CmdIds : tasks[t].poll => tasks[t].pc \in {"none", "done"}

C13_FailureCaptured ==
    [][ /\ (wpc \in DirectKinds /\ wpc' # wpc) =>
              /\ wpc' = "loop"
              /\ Len(results'[cur]) = 1
              /\ \A c \in CmdIds : c # cur => results'[c] = results[c]
              /\ UNCHANGED <<running, cmdQueue>>
        /\ wpc' = "crashed" => ~running'
      ]_vars

\* C13 witness: a command whose Link call raised got its failure message and
\* a command enqueued after it was serviced and answered.
C13_Witness ==
    \E a, b \in Enqueued :
        /\ a < b
        /\ Direct(a) /\ a \in linkCalled
        /\ results[a] \in {<<"failure">>, <<"error">>}
        /\ Direct(b) /\ b \in linkCalled /\ Len(results[b]) = 1
        /\ running

\* ------------------------------------------ derived notions, controller
\* a power_on / power_off call has returned without raising
PowerDone == operation \in PowerOperations /\ cpc = "returned"
\* the temporary schedule as bytes: Monday's first slot 09:00-10:00 with the
\* boiler bit, every other byte zero
TemporaryBytes ==
    [k \in 1..84 |-> IF k = 2 THEN 10 ELSE IF k = 4 THEN 137 ELSE 0]
\* what each of the nine commands does, and to which characteristic
ChoreographyOrder ==
    << <<"read", "schedule">>, <<"write", "timer_state">>,
       <<"write", "schedule">>, <<"write", "last_sync_time">>,
       <<"write", "current_time">>, <<"write", "timer_state">>,
       <<"write", "last_sync_time">>, <<"write", "current_time">>,
       <<"write", "schedule">> >>
\* commands enqueued whose result the controller has not received
Outstanding == Len(workQueue) + (IF reply.status = "none" THEN 0 ELSE 1)
\* proleptic Gregorian day number of a date (1 is Monday 0001-01-01)
Ordinal(y, m, d) ==
    LET before == <<0, 31, 59, 90, 120, 151, 181, 212, 243, 273, 304, 334>>
        leap   == y % 4 = 0 /\ (y % 100 # 0 \/ y % 400 = 0)
    IN  365 * (y - 1) + ((y - 1) \div 4) - ((y - 1) \div 100)
        + ((y - 1) \div 400) + before[m]
        + (IF leap /\ m > 2 THEN 1 ELSE 0) + d
\* the instant seven time bytes denote, in seconds since 2000-01-01 00:00:00
Seconds(b) ==
    (Ordinal(2000 + b[1], b[2], b[3]) - Ordinal(2000, 1, 1)) * 86400
    + b[5] * 3600 + b[6] * 60 + b[7]
\* the time bytes denote a Monday
IsMonday(b) == (Ordinal(2000 + b[1], b[2], b[3]) + 6) % 7 = 0
\* the time of day of time bytes b lies in the window of slot bytes s
InWindow(b, s) ==
    LET t == b[5] * 3600 + b[6] * 60 + b[7]
    IN  /\ ((s[4] % 128) * 60 + s[3]) * 60 <= t
        /\ t < (s[2] * 60 + s[1]) * 60

\* C14: the commands of power_on / power_off are enqueued in the order read
\* schedule, timer enabled, temporary schedule, last sync, clock at the fixed
\* Monday instant, timer disabled, last sync, clock at the wall clock,
\* schedule; a call that returns has enqueued all nine; and no command is
\* enqueued while the result of another is outstanding.
C14_CommandOrder ==
    /\ Outstanding <= 1
    /\ operation \in PowerOperations =>
         /\ Len(issued) <= 9
         /\ \A i \in 1..Len(issued) :
              <<issued[i].kind, issued[i].uuid>> = ChoreographyOrder[i]
         /\ Len(issued) >= 2 => issued[2].value = <<1>>
         /\ Len(issued) >= 3 => issued[3].value = TemporaryBytes
         /\ Len(issued) >= 5 =>
              issued[5].value \in {<<24, 1, 1, 0, 9, 5, 0>>,
                                   <<24, 1, 1, 0, 10, 5, 0>>}
         /\ Len(issued) >= 6 => issued[6].value = <<0>>
         /\ Len(issued) >= 8 =>
              /\ issued[8].value = EncodeDateTime(current_local_time)
              /\ current_local_time \in WallClocks
         /\ cpc = "returned" => Len(issued) = 9

\* C14 witness: a power_on call has returned after all nine commands.
C14_Witness ==
    /\ operation = "power_on" /\ cpc = "returned" /\ Len(issued) = 9

\* C15: the clock written in step 5 is a Monday instant that lies in the
\* window of the temporary schedule written in step 3 for power_on and
\* outside it for power_off, and the last sync time written in step 4 is
\* that instant minus sixty seconds.
C15_FixedInstant ==
    (operation \in PowerOperations /\ Len(issued) >= 5) =>
        LET window == SubSeq(issued[3].value, 1, 4)
            sync   == issued[4].value
            clock  == issued[5].value
        IN  /\ IsMonday(clock)
            /\ window[4] >= 128
            /\ operation = "power_on" => InWindow(clock, window)
            /\ operation = "power_off" => ~InWindow(clock, window)
            /\ Seconds(sync) + 60 = Seconds(clock)

\* C15 witness: power_off has written the clock and the appliance holds the
\* temporary schedule and the instant outside its window.
C15_Witness ==
    /\ operation = "power_off" /\ step > 5
    /\ device.schedule = TemporaryBytes
    /\ device.current_time = <<24, 1, 1, 0, 10, 5, 0>>
    /\ device.last_sync_time = <<24, 1, 1, 0, 10, 4, 0>>

\* C16: when the result of a choreography step is an error, the step that
\* receives it raises and enqueues nothing; once the call has raised at
\* step k exactly k commands were enqueued, none is outstanding, nothing is
\* enqueued or written any more, and if the temporary schedule had been
\* written (k > 3) the appliance holds it.
C16_FailureStops ==
    [][ /\ (reply.status = "error" /\ reply' # reply) =>
              /\ cpc' = "Exception"
              /\ UNCHANGED <<issued, workQueue, device>>
        /\ (cpc' = "Exception" /\ operation' \in PowerOperations) =>
              /\ Len(issued') = step'
              /\ Outstanding' = 0
              /\ step' > 3 => device'.schedule = TemporaryBytes
        /\ cpc = "Exception" => UNCHANGED <<issued, workQueue, device>>
      ]_vars

\* C16 witness: power_on raised at the wall-clock writes, the appliance
\* holding the temporary schedule although it held another one at the call.
C16_Witness ==
    /\ operation = "power_on" /\ cpc = "Exception" /\ step \in {7, 8}
    /\ device.schedule = TemporaryBytes
    /\ deviceAtCall.schedule # TemporaryBytes
    /\ deviceAtCall.schedule # [k \in 1..84 |-> 0]

\* C17 (as written): after a power_on / power_off call that returned, the
\* appliance's schedule bytes equal the bytes it held when the call was made.
C17_ScheduleBytesRestored ==
    PowerDone => device.schedule = deviceAtCall.schedule

\* C18: after a power_on / power_off call that returned the timer state is
\* disabled whatever it was at the call: the last timer-state write enqueued
\* is the sixth command, with value 0.
C18_TimerLeftDisabled ==
    PowerDone =>
        /\ device.timer_state = <<0>>
        /\ issued[6].uuid = "timer_state" /\ issued[6].value = <<0>>
        /\ \A i \in 7..Len(issued) : issued[i].uuid # "timer_state"

\* C18 witness: the timer was enabled when power_off was called and is
\* disabled when the call has returned.
C18_Witness ==
    /\ operation = "power_off" /\ cpc = "returned"
    /\ deviceAtCall.timer_state = <<1>>
    /\ device.timer_state = <<0>>

\* C19: an operation called while _is_connected is false raises
\* ConnectionError in that step and enqueues nothing; a command is enqueued
\* only while _is_connected is true.
C19_NotConnectedRaises ==
    [][ /\ (cpc = "idle" /\ cpc' # "idle" /\ ~isConnected) =>
              /\ cpc' = "ConnectionError"
              /\ UNCHANGED <<workQueue, issued, reply, device>>
        /\ issued' # issued => isConnected
      ]_vars

\* C19 witness: a time setter raised ConnectionError with nothing enqueued.
C19_Witness ==
    /\ operation = "set_last_sync_time" /\ cpc = "ConnectionError"
    /\ ~isConnected
    /\ issued = <<>> /\ workQueue = <<>>

\* ---------------------------------------------- derived notions, server
\* handlers whose Connect command is with a worker
Connecting == {h \in Handlers : handler[h].pc = "connecting"}

\* C20 (as written): while handlers call ensure_connected concurrently, at
\* most one connect attempt is pending or in flight, and at most one
\* CoffeeMachine instance is being connected.
C20_SingleConnectAttempt ==
    /\ Cardinality(Connecting) <= 1
    /\ Cardinality({handler[h].inst : h \in Connecting}) <= 1

\* C21 (as written): when ensure_connected finds the CoffeeMachine instance
\* disconnected after a completed disconnect(), its connect() on that same
\* instance starts a connection attempt.
C21_ReconnectStartsConnecting ==
    [][ \A h \in Handlers :
          (/\ handler[h].pc = "idle"
           /\ coffee_machine \in disconnected
           /\ ~instances[coffee_machine].is_connected
           /\ handler'[h].pc # "idle") =>
             handler'[h].pc = "connecting"
      ]_vars

\* ---------------------------------------------- derived notions, codecs
\* set_schedule returned as the i-th completed operation, get_schedule as the
\* next, and the only command enqueued in between is the read of the latter
SetThenGet(i) ==
    /\ i \in 1..(Len(completed) - 1)
    /\ completed[i].op = "set_schedule"
    /\ completed[i + 1].op = "get_schedule"
    /\ completed[i + 1].cmd = completed[i].cmd + 1

\* C22 (as written): a set_schedule(s) followed by a get_schedule() with no
\* other schedule write in between returns a schedule equal to s exactly.
C22_SetThenGetEqual ==
    \A i \in 1..(Len(completed) - 1) :
        SetThenGet(i) => completed[i + 1].value = completed[i].arg

\* the i-th and the next application are functions f and g
Chain(i, f, g) ==
    /\ i \in 1..(Len(applied) - 1)
    /\ applied[i].fn = f /\ ~applied[i].raised
    /\ applied[i + 1].fn = g

\* each slot of an 84-byte payload is all-zero or holds hours 0-23 and
\* minutes 0-59
WellFormedPayload(b) ==
    /\ Len(b) = ScheduleLen
    /\ \A p \in 0..(NumDays * SlotsPerDay - 1) :
         /\ b[4 * p + 1] \in 0..59 /\ b[4 * p + 2] \in 0..23
         /\ b[4 * p + 3] \in 0..59 /\ (b[4 * p + 4] % 128) \in 0..23

\* at most 3 entries per day
ValidSchedule(sd) == \A d \in DOMAIN sd : Len(sd[d]) <= SlotsPerDay

\* C23 (as written): for every 84-byte input b whose slots are all-zero or
\* well-formed, encode_schedule(decode_schedule(b)) = b.
C23_EncodeDecodeIdentity ==
    \A i \in 1..(Len(applied) - 1) :
        (Chain(i, "decode_schedule", "encode_schedule")
           /\ WellFormedPayload(applied[i].arg)) =>
          applied[i + 1].res = applied[i].arg

\* C24 (as written): for every weekly schedule s with at most 3 entries per
\* day, decode_schedule(encode_schedule(s)) = s.
C24_DecodeEncodeIdentity ==
    \A i \in 1..(Len(applied) - 1) :
        (Chain(i, "encode_schedule", "decode_schedule")
           /\ ValidSchedule(applied[i].arg)) =>
          applied[i + 1].res = applied[i].arg

\* C25 (as written): decode_schedule applied to a payload shorter than 84
\* bytes raises an error and returns no schedule.
C25_ShortPayloadRaises ==
    \A i \in 1..Len(applied) :
        (applied[i].fn = "decode_schedule"
           /\ Len(applied[i].arg) < ScheduleLen) => applied[i].raised

\* the four bytes the schedule format gives an entry
SlotBytesOf(entry) ==
    <<entry.end[2], entry.end[1], entry.start[2],
      entry.start[1] + (IF entry.boiler_on THEN 128 ELSE 0)>>

\* the entries schedule sd gives day d (0: Monday), none when the day is
\* missing
EntriesOf(sd, d) ==
    IF DAYS_OF_WEEK_ORDER[d + 1] \in DOMAIN sd
      THEN sd[DAYS_OF_WEEK_ORDER[d + 1]] ELSE <<>>

\* C26: encode_schedule returns exactly 84 bytes; slot k (0..2) of day d
\* holds the bytes of the day's entry k + 1 if the day has one, and is
\* all-zero otherwise; entries past the third appear nowhere and raise no
\* error.
C26_EncodeLayout ==
    \A i \in 1..Len(applied) :
        applied[i].fn = "encode_schedule" =>
          /\ ~applied[i].raised
          /\ Len(applied[i].res) = 84
          /\ \A d \in 0..6, k \in 0..2 :
               SubSeq(applied[i].res, 12 * d + 4 * k + 1, 12 * d + 4 * k + 4) =
                 IF k < Len(EntriesOf(applied[i].arg, d))
                   THEN SlotBytesOf(EntriesOf(applied[i].arg, d)[k + 1])
                   ELSE <<0, 0, 0, 0>>

\* C26 witness: a schedule whose Sunday has four entries, the fourth unlike
\* the first, has been encoded.
C26_Witness ==
    /\ Len(applied) >= 1
    /\ applied[1].fn = "encode_schedule"
    /\ DOMAIN applied[1].arg = {"Sunday"}
    /\ Len(applied[1].arg["Sunday"]) = 4
    /\ applied[1].arg["Sunday"][4] # applied[1].arg["Sunday"][1]
    /\ applied[1].arg["Sunday"][4] # Entry(0, 0, 0, 0, FALSE)

\* C27: for an appliance time t with year 2000-2255, encode_value(t) is the
\* 7 bytes [year-2000, month, day, 0, hour, minute, second], and decoding
\* them (parse_value, then strptime as get_current_time does) yields t.
C27_TimeRoundTrip ==
    \A i \in 1..Len(applied) :
        (applied[i].fn = "encode_value"
           /\ applied[i].arg.year \in 2000..2255) =>
          LET t == applied[i].arg IN
          /\ ~applied[i].raised
          /\ applied[i].res = <<t.year - 2000, t.month, t.day, 0,
                                t.hour, t.minute, t.second>>
          /\ i + 1 <= Len(applied) =>
                /\ applied[i + 1].fn = "parse_value"
                /\ Len(applied[i + 1].res) = 19
          /\ i + 2 <= Len(applied) =>
                /\ applied[i + 2].fn = "strptime"
                /\ ~applied[i + 2].raised
                /\ applied[i + 2].res = t

\* C27 witness: the last second of the leap day of 2024, or the first second
\* of 2255, made the round trip.
C27_Witness ==
    /\ Len(applied) = 3
    /\ applied[1].fn = "encode_value"
    /\ applied[3].fn = "strptime"
    /\ applied[1].arg \in {DateTime(2024, 2, 29, 23, 59, 59),
                           DateTime(2255, 1, 1, 0, 0, 0)}
    /\ applied[3].res = applied[1].arg

\* C28 (as written): for a payload of at least 4 bytes the boiler data
\* reported have as temp the text of (byte0 + 256 * byte1) / 10 and as state
\* the text of the status code byte1: "90.0" and "3" for [0x84, 0x03, 0x01,
\* 0x00].
C28_BoilerReport ==
    \A i \in 1..Len(applied) :
        (applied[i].fn = "_get_boiler_data" /\ Len(applied[i].arg) >= 4) =>
          LET b == applied[i].arg
              tenths == b[1] + 256 * b[2]
          IN  /\ applied[i].res.temp =
                   DigitsOf(tenths \div 10) \o <<".", Digit(tenths % 10)>>
              /\ applied[i].res.state = DigitsOf(b[2])

\* --------------------------------------------- derived notions, estimator
\* the state is the one the last temperature_updated call left
JustUpdated == lastCall.name = "temperature_updated"

\* C29: after a temperature_updated call that leaves fewer than 4 samples in
\* the window the state is Unknown, whatever it was before.
C29_UnknownBelowFour ==
    (JustUpdated /\ Len(temperatures) < 4) => power_state = "unknown"

\* C29 witness: the state had been set to On by hand, and the reading that
\* followed left three samples and the state Unknown.
C29_Witness ==
    /\ JustUpdated
    /\ lastCall.prior = "on"
    /\ Len(temperatures) = 3
    /\ power_state = "unknown"

\* C30 (as written): with at least 4 samples in the window, when the window
\* mean is >= target-5 or the latest sample is >= target, the state after
\* temperature_updated is On.
C30_OnTakesPrecedence ==
    (/\ JustUpdated
     /\ Len(temperatures) >= 4
     /\ \/ Sum(temperatures) >= Len(temperatures) * 90
        \/ temperatures[Len(temperatures)] >= 95) => power_state = "on"

\* the step is a temperature_updated call, a set_power_state call
UpdateStep == updates' = updates + 1
OverrideStep == overrides' = overrides + 1

\* numerator and denominator of the least-squares slope of ys over xs, and
\* n (n - 1) times the sample variance of ys
SlopeNum(xs, ys) ==
    Len(xs) * Sum([i \in 1..Len(xs) |-> xs[i] * ys[i]]) - Sum(xs) * Sum(ys)
SlopeDen(xs) ==
    Len(xs) * Sum([i \in 1..Len(xs) |-> xs[i] * xs[i]]) - Sum(xs) * Sum(xs)
ScaledVariance(ys) ==
    Len(ys) * Sum([i \in 1..Len(ys) |-> ys[i] * ys[i]]) - Sum(ys) * Sum(ys)

\* the three rules on windows xs (seconds) and ys (degrees): mean >= 90 or
\* latest >= 95; slope > 1/20 and variance > 1/4; slope < -1/100
RuleOn(ys) == Sum(ys) >= 90 * Len(ys) \/ ys[Len(ys)] >= 95
RuleWarming(xs, ys) ==
    /\ SlopeDen(xs) > 0
    /\ 20 * SlopeNum(xs, ys) > SlopeDen(xs)
    /\ 4 * ScaledVariance(ys) > Len(ys) * (Len(ys) - 1)
RuleOff(xs, ys) ==
    /\ SlopeDen(xs) > 0
    /\ 100 * SlopeNum(xs, ys) < - SlopeDen(xs)

\* C31: with at least 4 samples in the window, a temperature_updated call
\* after which none of the On, WarmingUp and Off conditions holds leaves the
\* power state and the last-change timestamp as they were.
C31_Hysteresis ==
    [][ (/\ UpdateStep
         /\ Len(temperatures') >= 4
         /\ ~RuleOn(temperatures')
         /\ ~RuleWarming(timestamps', temperatures')
         /\ ~RuleOff(timestamps', temperatures')) =>
           UNCHANGED <<power_state, last_change_timestamp>>
      ]_vars

\* C31 witness: the state was On by hand, stamped 5000; a reading completed
\* a flat window of four samples at different times, no rule fired, and
\* state and stamp are still those.
C31_Witness ==
    /\ JustUpdated /\ ~lastCall.raised
    /\ Len(temperatures) = 4
    /\ ~RuleOn(temperatures)
    /\ ~RuleWarming(timestamps, temperatures)
    /\ ~RuleOff(timestamps, temperatures)
    /\ lastCall.prior = "on" /\ power_state = "on"
    /\ last_change_timestamp = [clock |-> "argument", t |-> 5000]

\* C32: set_power_state(s, ts) with s the current state changes neither the
\* state nor the last-change timestamp; with another s it sets the state to
\* s and the timestamp to ts, or to the wall clock when ts is None.
C32_SetPowerState ==
    [][ OverrideStep =>
          IF lastCall'.state = power_state
            THEN UNCHANGED <<power_state, last_change_timestamp>>
            ELSE /\ power_state' = lastCall'.state
                 /\ last_change_timestamp' =
                       IF lastCall'.timestamp.given
                         THEN [clock |-> "argument",
                               t |-> lastCall'.timestamp.t]
                         ELSE [clock |-> "time.time", t |-> 0]
      ]_vars

\* C32 witness: set_power_state(On, 5000) was called on an estimator the
\* readings had already turned On, and the stamp of that turn is kept.
C32_Witness ==
    /\ lastCall.name = "set_power_state"
    /\ lastCall.state = "on" /\ lastCall.prior = "on"
    /\ lastCall.timestamp = Given(5000)
    /\ power_state = "on"
    /\ last_change_timestamp.t # 5000

\* C33 (as written): every temperature_updated call completes without
\* raising, samples with the same timestamp included.
C33_NeverRaises ==
    JustUpdated => ~lastCall.raised

\* C34: with at least 4 samples and the On-condition false, the state after
\* temperature_updated is WarmingUp if slope > 0.05 and stddev > 0.5, else
\* Off if slope < -0.01, else the state before the call.
C34_SlopeRules ==
    [][ (UpdateStep /\ Len(temperatures') >= 4 /\ ~RuleOn(temperatures')) =>
          power_state' =
            IF RuleWarming(timestamps', temperatures') THEN "warming_up"
            ELSE IF RuleOff(timestamps', temperatures') THEN "off"
            ELSE power_state
      ]_vars

\* C34 witness: a window of four samples that rises by one degree with a
\* standard deviation above 0.5 has been classified WarmingUp at its fourth
\* sample.
C34_Witness ==
    /\ JustUpdated /\ updates = 4
    /\ temperatures = <<60, 60, 61, 61>>
    /\ timestamps = <<0, 1, 2, 3>>
    /\ power_state = "warming_up"

\* the last k members of a sequence
LastOf(q, k) == SubSeq(q, Len(q) - k + 1, Len(q))

\* C35: the two windows have the same length, at most N; they hold the
\* min(N, updates) most recent samples in arrival order; set_power_state
\* leaves the windows alone.
C35_Window ==
    /\ [](/\ Len(temperatures) = Len(timestamps)
          /\ Len(temperatures) <= window_size
          /\ Len(samples) = updates
          /\ LET k == IF updates < window_size THEN updates ELSE window_size
             IN  /\ Len(temperatures) = k
                 /\ \A i \in 1..k :
                      <<timestamps[i], temperatures[i]>> = LastOf(samples, k)[i])
    /\ [][OverrideStep => UNCHANGED <<temperatures, timestamps>>]_vars

\* C35 witness: four readings went into a window of three, the first of
\* them unlike all the later ones.
C35_Witness ==
    /\ window_size = 3 /\ updates = 4
    /\ Len(temperatures) = 3
    /\ samples[1][2] = 100
    /\ \A i \in 1..3 : temperatures[i] # 100

\* C36: in every step the last-change timestamp changes only if the power
\* state changes in that step.
C36_StampOnlyOnChange ==
    [][ last_change_timestamp' # last_change_timestamp =>
          power_state' # power_state ]_vars

\* C36 witness: the state was On by hand, stamped 5000; the fourth reading
\* found the On-condition true and the stamp is still 5000.
C36_Witness ==
    /\ JustUpdated /\ ~lastCall.raised
    /\ Len(temperatures) = 4
    /\ RuleOn(temperatures)
    /\ lastCall.prior = "on" /\ power_state = "on"
    /\ last_change_timestamp = [clock |-> "argument", t |-> 5000]

\* ------------------------------------- derived notions, worker (continued)
\* poll task t has begun its cycles and its cancellation was not requested
PollRunning(t) ==
    /\ tasks[t].poll
    /\ tasks[t].pc \in {"reading", "sleeping"}
    /\ ~tasks[t].cancelled
\* a Disconnect command enqueued after the command of task t has been answered
DisconnectServicedAfter(t) ==
    \E d \in Enqueued :
        d > t /\ cmds[d].kind = "disconnect" /\ Len(results[d]) = 1
\* after a Disconnect, on a worker that was not told to stop, running poll
\* task t has not delivered all the cycles the model lets it start
OwesCycle(t) ==
    /\ running
    /\ PollRunning(t)
    /\ DisconnectServicedAfter(t)
    /\ tasks[t].cycles < MaxDeliver
\* the step is part of main_loop's servicing of a Disconnect command
DisconnectStep ==
    \/ \E c \in CmdIds : AboutToService(c, {"disconnect"}) /\ HandlerStep
    \/ wpc = "disconnect" /\ wpc' # "disconnect"
\* the step is main_loop's handling of a list command
ListStep ==
    \E c \in CmdIds : AboutToService(c, {"list_characteristics"}) /\ HandlerStep
\* the step is main_loop leaving its loop after stop() cleared the flag
ShutdownStep == wpc = "loop" /\ ~running /\ wpc' # "loop"
\* the step is main_loop's handling of the one-shot list command c
OneShotStep(c) ==
    /\ AboutToService(c, {"list_characteristics"})
    /\ cmds[c].interval = 0
    /\ HandlerStep
\* no Connect command was dequeued after command d
NoConnectSince(d) ==
    \A c \in Range(dequeued) : c > d => cmds[c].kind # "connect"
\* a Disconnect command has been answered and no Connect was dequeued since
DisconnectedSince ==
    \E d \in Enqueued :
        /\ cmds[d].kind = "disconnect"
        /\ Len(results[d]) = 1
        /\ NoConnectSince(d)

\* C37: servicing a Disconnect command changes no task and not the tracked
\* polling task; a task keeps the client handle it was created with; the
\* cancellation of a running poll task is requested only by the handling of
\* a list/poll command or by main_loop's shutdown; a running poll task that
\* is not cancelled stays in its cycle and every cycle it completes appends
\* one data message to its queue; and after a Disconnect has been serviced a
\* running poll task does not stay short of its next delivery for ever: it
\* delivers the cycle, unless it is cancelled or stop() is called first.
C37_PollSurvivesDisconnect ==
    /\ [][ /\ DisconnectStep => UNCHANGED <<tasks, pollingTask>>
           /\ \A t \in CmdIds :
                /\ tasks[t].pc # "none" => tasks'[t].client = tasks[t].client
                /\ (PollRunning(t) /\ tasks'[t].cancelled) =>
                       (ListStep \/ ShutdownStep)
                /\ (PollRunning(t) /\ ~tasks'[t].cancelled) =>
                       /\ tasks'[t].pc \in {"reading", "sleeping"}
                       /\ IF tasks'[t].cycles # tasks[t].cycles
                            THEN /\ tasks'[t].cycles = tasks[t].cycles + 1
                                 /\ results'[t] = Append(results[t], "data")
                            ELSE results'[t] = results[t]
         ]_vars
    /\ []<>(\A t \in CmdIds : ~OwesCycle(t))

\* C37 witness: a Disconnect serviced after a poll task was created closed
\* the link and dropped the handle; the poll task, still holding the closed
\* client, is between two cycles and has delivered twice.
C37_Witness ==
    \E t, d \in Enqueued :
        /\ t < d
        /\ cmds[d].kind = "disconnect" /\ results[d] = <<"success">>
        /\ PollRunning(t) /\ tasks[t].pc = "sleeping"
        /\ tasks[t].client # 0 /\ ~connected[tasks[t].client]
        /\ results[t] = <<"data", "data">>
        /\ client = 0
        /\ running

\* C38: the handling of a one-shot list command requests the cancellation
\* of every poll task that has not terminated, leaves polling_task as it was
\* and creates the one-shot task on the current handle, ending or starting
\* no other task; a poll task whose cancellation was requested delivers
\* nothing more; a one-shot task is never the tracked polling task, its
\* cancellation is never requested, and the gather of the shutdown waits for
\* a poll task only.
C38_OneShotCancelsPoll ==
    /\ [](\A t \in CmdIds :
            (tasks[t].pc # "none" /\ ~tasks[t].poll) =>
                ~tasks[t].cancelled /\ pollingTask # t)
    /\ [](wpc = "gather" => pollingTask # 0 /\ tasks[pollingTask].poll)
    /\ [][ /\ \A c \in CmdIds : OneShotStep(c) =>
                /\ \A t \in CmdIds :
                     (tasks'[t].poll
                        /\ tasks'[t].pc \in {"new", "reading", "sleeping"}) =>
                            tasks'[t].cancelled
                /\ pollingTask' = pollingTask
                /\ tasks'[c] = [NoTask EXCEPT !.pc = "new", !.client = client]
                /\ \A t \in CmdIds : t # c => tasks'[t].pc = tasks[t].pc
           /\ \A t \in CmdIds :
                (tasks[t].poll /\ tasks[t].cancelled) =>
                    results'[t] = results[t]
         ]_vars

\* C38 witness: with the worker still running, a poll task that had
\* delivered has ended cancelled after a one-shot list command was serviced;
\* polling_task still names the ended task and the one-shot task exists.
C38_Witness ==
    \E t, c \in Enqueued :
        /\ t < c
        /\ tasks[t].poll /\ tasks[t].cancelled /\ tasks[t].pc = "done"
        /\ Len(results[t]) >= 1
        /\ cmds[c].kind = "list_characteristics" /\ cmds[c].interval = 0
        /\ tasks[c].pc # "none"
        /\ pollingTask = t
        /\ running

\* C39: while a Disconnect command has been answered and no Connect was
\* dequeued since, the worker holds no handle and no step invokes a Link
\* disconnect, the steps of the shutdown included; a Read or Write answered
\* after a Disconnect with no successful Connect in between has the "Not
\* connected" error as its result and made no Link call.
C39_NoHandleAfterDisconnect ==
    /\ [](DisconnectedSince => client = 0)
    /\ [](\A d, b \in Enqueued :
            ( /\ d < b
              /\ cmds[d].kind = "disconnect"
              /\ cmds[b].kind \in {"read", "write"}
              /\ Len(results[b]) = 1
              /\ \A c \in Enqueued :
                   (d < c /\ c < b /\ cmds[c].kind = "connect") =>
                       results[c] # <<"success">> ) =>
                /\ results[b] = <<"not_connected">>
                /\ b \notin linkCalled)
    /\ [][ (DisconnectedSince /\ DisconnectedSince') =>
               discInvoked' = discInvoked ]_vars

\* C39 witness: a Disconnect whose Link call raised was answered with the
\* failure, the Read after it got the "Not connected" error, and the worker
\* has shut down having invoked disconnect that one time only.
C39_Witness ==
    \E d, b \in Enqueued :
        /\ d < b
        /\ cmds[d].kind = "disconnect" /\ d \in linkCalled
        /\ results[d] = <<"failure">>
        /\ NoConnectSince(d)
        /\ cmds[b].kind = "read" /\ results[b] = <<"not_connected">>
        /\ wpc = "exited"
        /\ Cardinality(discInvoked) = 1

\* C40: a stop() that found the worker running eventually returns, the
\* worker thread having terminated, whatever is queued and whether or not a
\* poll task is active; a stop() that finds the worker not running returns
\* at once, puts nothing on the command queue and changes nothing else.
C40_StopReturns ==
    /\ (spc = "put") ~> (spc = "returned" /\ wpc \in Dead)
    /\ [][ (spc = "idle" /\ ~running /\ spc' # spc) =>
              /\ spc' = "returned_early"
              /\ UNCHANGED <<running, wpc, cur, cmds, cmdQueue, results,
                             client, connected, tasks, pollingTask>>
      ]_vars

\* C40 witness: stop() has returned on a worker that had a poll task, a
\* command still queued and a connection.
C40_Witness ==
    /\ spc = "returned"
    /\ \E t \in CmdIds : tasks[t].poll /\ tasks[t].pc # "none"
    /\ \E i \in 1..Len(cmdQueue) : cmdQueue[i] # 0
    /\ heldAtStop # 0

\* C40 witness, second case: stop() returned at once on a worker that was
\* never started
C40_WitnessEarly == spc = "returned_early" /\ cmdQueue = <<>>

====
